---- MODULE Spec2Model ----
(***************************************************************************)
(* LearnLocal home screen: deadline resolution (getEarliestDeadline,       *)
(* getEarliestDeadlineFromFullData), feed filtering and sorting.           *)
(*                                                                         *)
(* Two copies of the screen exist in the repository and both are modelled: *)
(*   variant "flex" : the copy carried in src/services/authDebugService.js *)
(*                    (parseFlexibleDate, getCollectionNameForCategory)    *)
(*   variant "home" : src/app/studentPages/(tabs)/Home.tsx                 *)
(*                    (parseMilestoneDate, fetch by specificCollection)    *)
(*                                                                         *)
(* Time is counted in whole hours since the Unix epoch (JavaScript counts  *)
(* milliseconds; every instant of the model is a whole number of hours).   *)
(*                                                                         *)
(* Further down: the batch enrichment of deadlines                         *)
(* (fetchOpportunityDeadlines), the date conversion on single values, and  *)
(* the reset codes of src/services/forgotPasswordService.js.               *)
(***************************************************************************)
EXTENDS Integers, Sequences, FiniteSets, Bags, TLC

VARIABLES
  variant,      \* which copy of the screen is running: "flex" or "home"
  engine,       \* how the JavaScript engine's Date.parse treats non-ISO text
  tz,           \* local time zone, hours east of UTC
  now,          \* the wall clock
  backend,      \* Firestore: the active opportunities and the user's bookmarks
  \* ---- one call of the deadline resolver
  opportunity,  \* the record handed to the resolver
  fullData,     \* what getOpportunityDetails will answer for it
  pc,           \* "idle", "fetching", "returned" (sync call), "settled" (async call)
  ret,          \* the value returned / the settled promise
  fetched,      \* the partition getOpportunityDetails was called with, "" if not called
  \* ---- the home screen
  opportunities,            \* useState: records of getAllActiveOpportunities
  bookmarkedOpportunities,  \* useState: records of getBookmarkedOpportunities
  selectedCategory,         \* useState
  sortBy,                   \* useState
  loading,                  \* useState
  displayed,                \* the list the last render produced, NotRendered before it
  \* ---- deadline enrichment (fetchOpportunityDeadlines)
  loops,                    \* the invocations of fetchOpportunityDeadlines, in start order
  opportunityDeadlines,     \* useState: the id -> Date map of the last finished invocation
  \* ---- the date conversion applied to single values
  conversions,              \* date value -> what the milestone conversion returned for it
  \* ---- forgotPasswordService
  resetDoc,                 \* Firestore passwordResetCodes/<email>, NoDoc when absent
  clock,                    \* minutes on the device clock
  calls,                    \* the verifyCode / resetPassword calls suspended at an await
  ended,                    \* what is remembered of the calls that have ended
  issues,                   \* per stored code: tallies of the calls that read it
  sending,                  \* the sendVerificationCode calls suspended at an await
  sent,                     \* what is remembered of the sendVerificationCode calls that ended
  \* ---- ThemeProvider
  themeStore,               \* AsyncStorage item "theme_mode", "none" when absent
  themeMode,                \* useState: "light", "dark" or "auto"
  isDark,                   \* useState
  systemColorScheme,        \* useColorScheme(): "light", "dark" or "null"
  effectDeps,               \* the dependencies the theme effect last ran with
  storageOps,               \* AsyncStorage requests not yet answered, oldest first
  themeLoaded,              \* loadTheme: "pending", "ok" or "failed"
  lastSave,                 \* how the last setThemeMode of this provider ended
  lastToggle,               \* the last toggleTheme: where it started, how it ended
  themeEvents,              \* taps, system changes and restarts so far
  \* ---- OfflineFileManager
  offlineFiles,             \* AsyncStorage item "offline_files": the metadata list
  disk,                     \* the document directory: file path -> size
  offlineClock,             \* new Date() of the offline operations
  lastOp,                   \* the last operation and what its cleanup removed and kept
  repeated,                 \* some download reused an id or a path still in the list
  \* ---- AuthProvider and authServices
  authStore,                \* AsyncStorage: auth_state, profile_data, session_timestamp
  authNow,                  \* Date.now(), in days
  firebaseUser,             \* auth.currentUser: "null" or a uid
  user,                     \* useState
  profileData,              \* useState: "null", "cached" (from storage) or "fetched"
  sessionValid,             \* useState
  pendingNotify,            \* onAuthStateChanged owes the subscribed callback a call
  tasks,                    \* the async functions awaiting Firebase
  storageQueue,             \* the async functions awaiting AsyncStorage, oldest request first
  loadResult,               \* what loadAuthState read, did and returned
  loggedOut,                \* "no", or how logOut was called: "quiet" (nothing in flight) or "busy"
  refreshes                 \* refreshProfile calls made by the screens

envVars == <<variant, engine, tz, now, backend>>
callVars == <<opportunity, fullData, pc, ret, fetched>>
screenVars == <<opportunities, bookmarkedOpportunities, selectedCategory, sortBy,
                loading, displayed>>
enrichVars == <<loops, opportunityDeadlines>>
parseVars == <<conversions>>
resetVars == <<resetDoc, clock, calls, ended, issues, sending, sent>>
themeVars == <<themeStore, themeMode, isDark, systemColorScheme, effectDeps,
               storageOps, themeLoaded, lastSave, lastToggle, themeEvents>>
\* what the home screen never touches, and what the reset service never touches
offlineVars == <<offlineFiles, disk, offlineClock, lastOp, repeated>>
homeVars == <<envVars, callVars, screenVars, enrichVars, parseVars>>
authVars == <<authStore, authNow, firebaseUser, user, profileData, sessionValid,
              pendingNotify, tasks, storageQueue, loadResult, loggedOut, refreshes>>
nonHomeVars == <<resetVars, themeVars, offlineVars, authVars>>
nonResetVars == <<homeVars, themeVars, offlineVars, authVars>>
nonThemeVars == <<homeVars, resetVars, offlineVars, authVars>>
nonOfflineVars == <<homeVars, resetVars, themeVars, authVars>>
nonAuthVars == <<homeVars, resetVars, themeVars, offlineVars>>
vars == <<homeVars, resetVars, themeVars, offlineVars, authVars>>

(***************************************************************************)
(* Calendar arithmetic: what the Date constructor computes.                *)
(***************************************************************************)

\* days from 1970-01-01 to the civil date y-m-d (m in 1..12; d may overflow the
\* month, as new Date(y, m, d) lets it)
DaysFromCivil(y, m, d) ==
  LET yy  == IF m <= 2 THEN y - 1 ELSE y
      era == yy \div 400
      yoe == yy - era * 400
      mp  == IF m > 2 THEN m - 3 ELSE m + 9
      doy == (153 * mp + 2) \div 5 + d - 1
      doe == yoe * 365 + yoe \div 4 - yoe \div 100 + doy
  IN era * 146097 + doe - 719468

\* the instant of 00:00 UTC on y-m-d
UtcMidnight(y, m, d) == DaysFromCivil(y, m, d) * 24

\* new Date(year, monthIndex, day): local midnight, monthIndex in 0..11
NewDateYMD(y, monthIndex, d, zone) == UtcMidnight(y, monthIndex + 1, d) - zone

\* 30 * 24 * 60 * 60 * 1000 ms, in hours
ThirtyDays == 30 * 24

(***************************************************************************)
(* JavaScript values a date field can hold.                                *)
(*   absent  the field is missing (undefined)                              *)
(*   null    the field is null                                             *)
(*   ts      a Firestore Timestamp (has toDate())                          *)
(*   date    a native Date                                                 *)
(*   num     a number (epoch time)                                         *)
(*   iso     the string "YYYY-MM-DD"                                       *)
(*   text    the string "<word> <d>, <yyyy>" (comma optional)              *)
(*   bad     a string that is no date at all ("bad-date")                  *)
(***************************************************************************)
DV(k, t, mon, m, d, y, comma) ==
  [k |-> k, t |-> t, mon |-> mon, m |-> m, d |-> d, y |-> y, comma |-> comma]

Absent == DV("absent", 0, "", 0, 0, 0, FALSE)
JsNull == DV("null", 0, "", 0, 0, 0, FALSE)
Ts(t) == DV("ts", t, "", 0, 0, 0, FALSE)
NativeDate(t) == DV("date", t, "", 0, 0, 0, FALSE)
Num(n) == DV("num", n, "", 0, 0, 0, FALSE)
Iso(y, m, d) == DV("iso", 0, "", m, d, y, FALSE)
Text(mon, d, y, comma) == DV("text", 0, mon, 0, d, y, comma)
BadString == DV("bad", 0, "", 0, 0, 0, FALSE)

IsString(v) == v.k \in {"iso", "text", "bad"}

\* JavaScript truthiness of a date field (the strings of the model are non-empty)
Truthy(v) ==
  CASE v.k \in {"absent", "null"} -> FALSE
    [] v.k = "num" -> v.t # 0
    [] OTHER -> TRUE

\* v.toDate is defined (only Firestore Timestamps carry it)
HasToDate(v) == v.k = "ts"

(***************************************************************************)
(* Results of a conversion: null, an invalid Date (getTime() is NaN), or a *)
(* valid Date.                                                             *)
(***************************************************************************)
Null == [tag |-> "null", t |-> 0]
InvalidDate == [tag |-> "invalid", t |-> 0]
ValidDate(t) == [tag |-> "date", t |-> t]
Rejected == [tag |-> "rejected", t |-> 0]

IsValid(r) == r.tag = "date"

(***************************************************************************)
(* Strings: toLowerCase and slice(0, 3) over the words of the model.       *)
(***************************************************************************)
MonthShort == <<"Jan", "Feb", "Mar", "Apr", "May", "Jun",
                "Jul", "Aug", "Sep", "Oct", "Nov", "Dec">>
MonthLong == <<"January", "February", "March", "April", "May", "June",
               "July", "August", "September", "October", "November", "December">>
LowerShort == <<"jan", "feb", "mar", "apr", "may", "jun",
                "jul", "aug", "sep", "oct", "nov", "dec">>
LowerLong == <<"january", "february", "march", "april", "may", "june",
               "july", "august", "september", "october", "november", "december">>

IndexIn(seq, w) == CHOOSE i \in 1..Len(seq) : seq[i] = w
Occurs(seq, w) == \E i \in 1..Len(seq) : seq[i] = w

LowerOther ==
  ("Resources" :> "resources") @@ ("Resource" :> "resource") @@
  ("studySpots" :> "studyspots") @@ ("Study Spot" :> "study spot") @@
  ("Scholarship / Grant" :> "scholarship / grant") @@
  ("Competition / Event" :> "competition / event") @@
  ("Workshop / Seminar" :> "workshop / seminar") @@
  ("Scholarships" :> "scholarships")

\* String.prototype.toLowerCase
ToLowerCase(s) ==
  IF Occurs(MonthShort, s) THEN LowerShort[IndexIn(MonthShort, s)]
  ELSE IF Occurs(MonthLong, s) THEN LowerLong[IndexIn(MonthLong, s)]
  ELSE IF s \in DOMAIN LowerOther THEN LowerOther[s]
  ELSE s

\* String.prototype.slice(0, 3) of a word
Slice3(w) ==
  IF Occurs(MonthLong, w) THEN MonthShort[IndexIn(MonthLong, w)] ELSE w

(***************************************************************************)
(* new Date(value).  Date.parse of the ISO form is fixed by ECMA-262       *)
(* (date-only forms are UTC); every other text is implementation-defined,  *)
(* so the engine is a parameter of the run:                                *)
(*   "lenient"  parses "<month> <d>[,] <yyyy>" with short or long names    *)
(*   "short"    parses only "<Mon> <d> <yyyy>": short name, no comma       *)
(*   "strict"   parses no such text                                        *)
(* Text dates carry no zone and are read as local time.                    *)
(***************************************************************************)
Engines == {"lenient", "short", "strict"}

IsMonthWord(w) == Occurs(MonthShort, w) \/ Occurs(MonthLong, w)

\* 0-based month of a month word
MonthIndexOfWord(w) == IndexIn(MonthShort, Slice3(w)) - 1

EngineParsesText(eng, v) ==
  CASE eng = "lenient" -> IsMonthWord(v.mon)
    [] eng = "short" -> Occurs(MonthShort, v.mon) /\ ~v.comma
    [] OTHER -> FALSE

\* new Date(<string>)
NewDateFromString(v, eng, zone) ==
  CASE v.k = "iso" -> ValidDate(UtcMidnight(v.y, v.m, v.d))
    [] v.k = "text" ->
         IF EngineParsesText(eng, v)
         THEN ValidDate(NewDateYMD(v.y, MonthIndexOfWord(v.mon), v.d, zone))
         ELSE InvalidDate
    [] OTHER -> InvalidDate

\* new Date(<any value>)
NewDate(v, eng, zone) ==
  CASE v.k = "absent" -> InvalidDate          \* new Date(undefined)
    [] v.k = "null" -> ValidDate(0)           \* new Date(null) is the epoch
    [] v.k \in {"num", "date"} -> ValidDate(v.t)
    [] v.k = "ts" -> InvalidDate              \* a Timestamp object converts to NaN
    [] OTHER -> NewDateFromString(v, eng, zone)

(***************************************************************************)
(* parseFlexibleDate (variant "flex")                                      *)
(***************************************************************************)
monthNames ==
  [w \in {LowerShort[i] : i \in 1..12} \cup {LowerLong[i] : i \in 1..12} |->
     IF Occurs(LowerShort, w) THEN IndexIn(LowerShort, w) - 1
     ELSE IndexIn(LowerLong, w) - 1]

\* the string branch: the Date constructor first, then the two patterns
ParseStringFlex(v, date, zone) ==
  IF IsValid(date) THEN date
  \* /^(\w+)\s+(\d{1,2}),?\s+(\d{4})$/ and the monthNames table
  ELSE IF v.k = "text" /\ ToLowerCase(v.mon) \in DOMAIN monthNames
    THEN ValidDate(NewDateYMD(v.y, monthNames[ToLowerCase(v.mon)], v.d, zone))
  \* /^(\d{4})-(\d{2})-(\d{2})/
  ELSE IF v.k = "iso" THEN ValidDate(NewDateYMD(v.y, v.m - 1, v.d, zone))
  ELSE Null

parseFlexibleDate(v, eng, zone) ==
  IF ~Truthy(v) THEN Null
  ELSE IF v.k = "date" THEN ValidDate(v.t)
  ELSE IF HasToDate(v) THEN ValidDate(v.t)
  ELSE IF v.k = "num" THEN ValidDate(v.t)
  ELSE IF IsString(v) THEN
    ParseStringFlex(v, NewDateFromString(v, eng, zone), zone)
  ELSE Null

(***************************************************************************)
(* parseMilestoneDate (variant "home")                                     *)
(***************************************************************************)
\* dateValue.replace(/,/g, "").trim()
Cleaned(v) == IF v.k = "text" THEN [v EXCEPT !.comma = FALSE] ELSE v

\* `${parts[0].slice(0, 3)} ${parts[1]} ${parts[2]}`, for a cleaned text of 3 parts
ShortMonthForm(v) == [v EXCEPT !.mon = Slice3(v.mon)]

\* the parses are tried in turn; the third only for a text of three parts
FirstValidParse(p1, p2, threeParts, p3) ==
  IF IsValid(p1) THEN p1
  ELSE IF IsValid(p2) THEN p2
  ELSE IF threeParts /\ IsValid(p3) THEN p3
  ELSE Null

parseMilestoneDate(v, eng, zone) ==
  IF Truthy(v) /\ HasToDate(v) THEN ValidDate(v.t)
  ELSE IF IsString(v) THEN
    FirstValidParse(NewDateFromString(v, eng, zone),
                    NewDateFromString(Cleaned(v), eng, zone),
                    v.k = "text",
                    NewDateFromString(ShortMonthForm(Cleaned(v)), eng, zone))
  ELSE IF v.k = "date" THEN ValidDate(v.t)
  ELSE Null

(***************************************************************************)
(* Array.prototype.sort(comparefn).  The comparator is given as the matrix *)
(* of its signs over the positions of the array (NaN counts as +0).  With  *)
(* a consistent comparator the result is the stable sorted order; with an  *)
(* inconsistent one ECMA-262 leaves the order implementation-defined.      *)
(***************************************************************************)
Sign(n) == IF n < 0 THEN -1 ELSE IF n > 0 THEN 1 ELSE 0

\* a.getTime() - b.getTime(): NaN when either Date is invalid, read as +0 by sort
TimeDiffSign(a, b) == IF IsValid(a) /\ IsValid(b) THEN Sign(a.t - b.t) ELSE 0

RECURSIVE Insert(_, _, _)
Insert(p, x, sgn) ==
  IF p = <<>> THEN <<x>>
  ELSE IF sgn[p[Len(p)]][x] > 0
    THEN Append(Insert(SubSeq(p, 1, Len(p) - 1), x, sgn), p[Len(p)])
    ELSE Append(p, x)

RECURSIVE SortIndices(_, _)
\* the stable sorted order of positions 1..n
SortIndices(n, sgn) ==
  IF n = 0 THEN <<>> ELSE Insert(SortIndices(n - 1, sgn), n, sgn)

\* ECMA-262: comparefn is a consistent comparison function for the elements
ConsistentComparator(n, sgn) ==
  \A i, j, k \in 1..n :
    /\ sgn[i][i] = 0
    /\ (sgn[i][j] = 0 => sgn[j][i] = 0)
    /\ (sgn[i][j] = 0 /\ sgn[j][k] = 0 => sgn[i][k] = 0)
    /\ (sgn[i][j] < 0 /\ sgn[j][k] < 0 => sgn[i][k] < 0)
    /\ (sgn[i][j] > 0 /\ sgn[j][k] > 0 => sgn[i][k] > 0)

IndexPermutations(n) ==
  {p \in [1..n -> 1..n] : \A i, j \in 1..n : i # j => p[i] # p[j]}

\* every order of positions the sort may produce
SortOutcomes(n, sgn) ==
  IF ConsistentComparator(n, sgn) THEN {SortIndices(n, sgn)} ELSE IndexPermutations(n)

Permute(seq, p) == [i \in 1..Len(seq) |-> seq[p[i]]]

(***************************************************************************)
(* Opportunity records.  A missing string field is Undefined; the          *)
(* dateMilestones field is absent (present = FALSE) or an array of         *)
(* milestone objects, each given by its date field.                        *)
(***************************************************************************)
Undefined == "undefined"

Milestones(items) == [present |-> TRUE, items |-> items]
NoMilestones == [present |-> FALSE, items |-> <<>>]

Opp(id, specificCollection, category, type, createdAt, deadline, dateMilestones, profileStatus, flatStatus, orgStatus) ==
  [id |-> id, specificCollection |-> specificCollection, category |-> category,
   type |-> type, createdAt |-> createdAt, deadline |-> deadline,
   dateMilestones |-> dateMilestones,
   profileStatus |-> profileStatus,   \* organizationProfile.verificationStatus
   flatStatus |-> flatStatus,         \* organizationVerificationStatus
   orgStatus |-> orgStatus]           \* organization.verificationStatus

\* x || "" for a string field
StrOrEmpty(x) == IF x = Undefined THEN "" ELSE x

(***************************************************************************)
(* getEarliestDeadline                                                     *)
(***************************************************************************)
\* opportunity.createdAt?.toDate?.() || new Date(opportunity.createdAt)
CreatedAtDate(v, eng, zone) ==
  IF HasToDate(v) THEN ValidDate(v.t) ELSE NewDate(v, eng, zone)

\* new Date(fallback.getTime() + 30 * 24 * 60 * 60 * 1000)
PlusThirtyDays(fallback) ==
  IF IsValid(fallback) THEN ValidDate(fallback.t + ThirtyDays) ELSE InvalidDate

FallbackDeadline(op, eng, zone) == PlusThirtyDays(CreatedAtDate(op.createdAt, eng, zone))

\* a list of one milestone does not count
HasMilestoneListOfTwo(op) == op.dateMilestones.present /\ Len(op.dateMilestones.items) > 1

\* opportunity.dateMilestones && Array.isArray(...) && length > 0
HasMilestoneList(op) == op.dateMilestones.present /\ Len(op.dateMilestones.items) > 0

Range(seq) == {seq[i] : i \in 1..Len(seq)}

\* the comparators of the milestone sorts, over the elements of the array
TimeDiffSigns(seq) == [a \in Range(seq), b \in Range(seq) |-> TimeDiffSign(a, b)]

\* the sign of comparefn(seq[i], seq[j]) for every pair of positions
SignMatrix(seq, cmp) ==
  LET RECURSIVE Row(_, _)
      Row(i, j) == IF j = 0 THEN <<>> ELSE Append(Row(i, j - 1), cmp[seq[i], seq[j]])
      RECURSIVE Rows(_)
      Rows(i) == IF i = 0 THEN <<>> ELSE Append(Rows(i - 1), Row(i, Len(seq)))
  IN Rows(Len(seq))

\* the last of the milestones instead of the first of the sorted ones
EarliestOfSortedLast(validMilestones) ==
  validMilestones[
    SortIndices(Len(validMilestones), SignMatrix(validMilestones, TimeDiffSigns(validMilestones)))
      [Len(validMilestones)]]

\* validMilestones.sort((a, b) => a.parsedDate - b.parsedDate)[0]
EarliestOfSorted(validMilestones) ==
  validMilestones[
    SortIndices(Len(validMilestones), SignMatrix(validMilestones, TimeDiffSigns(validMilestones)))[1]]

\* variant "flex": authDebugService.js
\* dateMilestones.map(parse).filter(parsedDate !== null)
ValidMilestonesFlex(items, eng, zone) ==
  SelectSeq([i \in 1..Len(items) |-> parseFlexibleDate(items[i], eng, zone)],
            LAMBDA r : r # Null)

\* the three sources in turn: milestones, deadline, createdAt + 30 days
FirstSourceFlex(hasList, validMilestones, hasDeadline, deadline, fallbackDate) ==
  IF hasList /\ Len(validMilestones) > 0 THEN EarliestOfSorted(validMilestones)
  ELSE IF hasDeadline /\ deadline # Null THEN deadline
  ELSE fallbackDate

getEarliestDeadlineFlex(op, eng, zone) ==
  FirstSourceFlex(HasMilestoneList(op),
                  ValidMilestonesFlex(op.dateMilestones.items, eng, zone),
                  Truthy(op.deadline),
                  parseFlexibleDate(op.deadline, eng, zone),
                  FallbackDeadline(op, eng, zone))

\* (dateA?.getTime() ?? Infinity) - (dateB?.getTime() ?? Infinity);
\* Infinity - Infinity is NaN
MilestoneDiffSign(a, b) ==
  IF a = Null /\ b = Null THEN 0
  ELSE IF a = Null THEN 1
  ELSE IF b = Null THEN -1
  ELSE TimeDiffSign(a, b)

\* variant "home": Home.tsx
MilestoneDiffSigns(parsed) ==
  [a \in Range(parsed), b \in Range(parsed) |-> MilestoneDiffSign(a, b)]

\* parseMilestoneDate(sortedMilestones[0].date), over the parsed dates of a
\* non-empty list
EarliestDateHome(parsed) ==
  parsed[SortIndices(Len(parsed), SignMatrix(parsed, MilestoneDiffSigns(parsed)))[1]]

ParsedMilestonesHome(items, eng, zone) ==
  [i \in 1..Len(items) |-> parseMilestoneDate(items[i], eng, zone)]

\* opportunity.deadline.toDate ? opportunity.deadline.toDate() : new Date(...)
DeadlineDateHome(v, eng, zone) ==
  IF HasToDate(v) THEN ValidDate(v.t) ELSE NewDate(v, eng, zone)

\* the three sources in turn: milestones, deadline, createdAt + 30 days
FirstSourceHome(hasList, earliestDate, hasDeadline, deadline, fallbackDate) ==
  IF hasList /\ earliestDate # Null /\ IsValid(earliestDate) THEN earliestDate
  ELSE IF hasDeadline /\ IsValid(deadline) THEN deadline
  ELSE fallbackDate

getEarliestDeadlineHome(op, eng, zone) ==
  FirstSourceHome(HasMilestoneList(op),
                  EarliestDateHome(
                    ParsedMilestonesHome(op.dateMilestones.items, eng, zone)),
                  Truthy(op.deadline),
                  DeadlineDateHome(op.deadline, eng, zone),
                  FallbackDeadline(op, eng, zone))

getEarliestDeadline(op, var, eng, zone) ==
  IF var = "flex" THEN getEarliestDeadlineFlex(op, eng, zone)
  ELSE getEarliestDeadlineHome(op, eng, zone)

\* the milestone parser of each variant
ParseMilestone(v, var, eng, zone) ==
  IF var = "flex" THEN parseFlexibleDate(v, eng, zone)
  ELSE parseMilestoneDate(v, eng, zone)

(***************************************************************************)
(* getEarliestDeadlineFromFullData                                         *)
(***************************************************************************)
categoryMap ==
  ("Scholarship / Grant" :> "scholarships") @@
  ("Competition / Event" :> "competitions") @@
  ("Workshop / Seminar" :> "workshops") @@
  ("Resources" :> "resources") @@
  ("Study Spot" :> "studySpots")

\* categoryMap[category] || "opportunities"
getCollectionNameForCategory(category) ==
  IF category \in DOMAIN categoryMap THEN categoryMap[category] ELSE "opportunities"

\* the partition the full record is fetched from, "" when no fetch is made
FetchTarget(op, var) ==
  IF var = "flex" THEN
    LET category == IF op.category \notin {Undefined, ""} THEN op.category
                    ELSE op.specificCollection
        targetCollection == getCollectionNameForCategory(category)
    IN IF op.id # Undefined /\ targetCollection # "opportunities"
       THEN targetCollection ELSE ""
  ELSE
    IF op.specificCollection \notin {Undefined, ""} /\ op.id # Undefined
    THEN op.specificCollection ELSE ""

\* answers of getOpportunityDetails
FetchRecord(rec) == [kind |-> "record", rec |-> rec]
FetchNull(op) == [kind |-> "null", rec |-> op]
FetchThrows(op) == [kind |-> "throws", rec |-> op]
NotFetched(op) == [kind |-> "none", rec |-> op]

\* a rejected fetch is not caught
OnFetchErrorUncaught(op, var, eng, zone) == Rejected

\* catch (error) { return getEarliestDeadline(opportunity); }
OnFetchError(op, var, eng, zone) == getEarliestDeadline(op, var, eng, zone)

\* what the call returns once the fetch has answered
AfterFetch(op, answer, var, eng, zone) ==
  CASE answer.kind = "throws" -> OnFetchError(op, var, eng, zone)
    [] answer.kind = "record" /\ answer.rec.dateMilestones.present ->
         getEarliestDeadline(answer.rec, var, eng, zone)
    [] OTHER -> getEarliestDeadline(op, var, eng, zone)

(***************************************************************************)
(* The environment of a run.                                               *)
(***************************************************************************)
Variants == {"flex", "home"}
TimeZones == {-5, 8}
Clock == {UtcMidnight(2025, 10, 1) + 7}

EnvInit ==
  /\ variant \in Variants
  /\ engine \in Engines
  /\ tz \in TimeZones
  /\ now \in Clock

(***************************************************************************)
(* The records a call of the resolver is tried on.                         *)
(***************************************************************************)
MaxMilestones == 2

SeqsUpTo(S, n) == UNION {[1..k -> S] : k \in 0..n}

MilestoneDates ==
  {Text("Dec", 1, 2025, TRUE), Iso(2025, 11, 20), BadString,
   Text("Jan", 5, 2026, TRUE), Ts(UtcMidnight(2025, 11, 18) + 9), Absent}

MilestoneFields ==
  {NoMilestones} \cup {Milestones(items) : items \in SeqsUpTo(MilestoneDates, MaxMilestones)}

CreatedAtValues == {Absent, JsNull, Ts(UtcMidnight(2025, 1, 1)), BadString}

DeadlineValues == {Absent, Ts(UtcMidnight(2025, 12, 25)), BadString}

\* <<category, specificCollection>>
PartitionFields ==
  {<<"Scholarship / Grant", "scholarships">>,
   <<"Mentorship", "opportunities">>,
   <<Undefined, "studySpots">>}

CallRecords ==
  {Opp("o1", pf[2], pf[1], Undefined, c, d, ms, "verified", Undefined, Undefined) :
     pf \in PartitionFields, c \in CreatedAtValues, d \in DeadlineValues,
     ms \in MilestoneFields}

\* the full records getOpportunityDetails may answer for a preview record
FullRecordsOf(op) ==
  {[op EXCEPT !.dateMilestones = ms, !.deadline = d] :
     ms \in MilestoneFields, d \in {op.deadline, Ts(UtcMidnight(2025, 12, 20))}}

FetchAnswers(op) ==
  {FetchNull(op), FetchThrows(op)} \cup {FetchRecord(r) : r \in FullRecordsOf(op)}

(***************************************************************************)
(* One call of the resolver.                                               *)
(***************************************************************************)
NotRendered == [done |-> FALSE, list |-> <<>>]

\* new Map()
EmptyMap == <<>>

\* no document under passwordResetCodes/<email>
NoDoc ==
  [exists |-> FALSE, code |-> "", createdAt |-> 0, expiresAt |-> 0, attempts |-> 0,
   maxAttempts |-> 0]

\* no enrichment started, no value converted, no reset code requested
EnrichIdle == loops = <<>> /\ opportunityDeadlines = EmptyMap
ParseIdle == conversions = EmptyMap
ResetIdle ==
  /\ resetDoc = NoDoc /\ clock = 0 /\ calls = EmptyBag /\ ended = {} /\ issues = <<>>
  /\ sending = EmptyBag /\ sent = EmptyBag

\* a toggleTheme that has not happened
NoToggle == [state |-> "none", from |-> "auto", before |-> FALSE, clean |-> FALSE]

\* the ThemeProvider not mounted by the screens under study
ThemeIdle ==
  /\ themeStore = "none" /\ themeMode = "auto" /\ isDark = FALSE
  /\ systemColorScheme = "light" /\ effectDeps = <<>> /\ storageOps = <<>>
  /\ themeLoaded = "pending" /\ lastSave = "none" /\ lastToggle = NoToggle
  /\ themeEvents = 0

\* no operation of the offline file manager yet
NoOp == [op |-> "none", evicted |-> {}, kept |-> {}]

\* nothing downloaded for offline use
OfflineIdle ==
  /\ offlineFiles = <<>> /\ disk = EmptyMap /\ offlineClock = 0
  /\ lastOp = NoOp /\ repeated = FALSE

\* session_timestamp absent
NoTimestamp == -1

\* none of auth_state, profile_data, session_timestamp stored
NothingStored == [auth |-> FALSE, profile |-> FALSE, timestamp |-> NoTimestamp]

\* loadAuthState has not returned
NotLoaded ==
  [done |-> FALSE, read |-> NothingStored, now |-> 0, returned |-> "null",
   profileRestored |-> FALSE, validSet |-> FALSE, removed |-> FALSE,
   after |-> NothingStored]

\* the AuthProvider not mounted by the screens under study
AuthIdle ==
  /\ authStore = NothingStored /\ authNow = 0 /\ firebaseUser = "null"
  /\ user = "null" /\ profileData = "null" /\ sessionValid = FALSE
  /\ pendingNotify = FALSE /\ tasks = EmptyBag /\ storageQueue = <<>>
  /\ loadResult = NotLoaded
  /\ loggedOut = "no" /\ refreshes = 0

\* the parts of the app a specification does not exercise
OthersIdle == ResetIdle /\ ThemeIdle /\ OfflineIdle /\ AuthIdle

ScreenIdle ==
  /\ opportunities = <<>>
  /\ bookmarkedOpportunities = <<>>
  /\ selectedCategory = "all"
  /\ sortBy = "newest"
  /\ loading = TRUE
  /\ displayed = NotRendered

InitResolver ==
  /\ EnvInit
  /\ backend = [active |-> <<>>, bookmarked |-> <<>>]
  /\ opportunity \in CallRecords
  /\ fullData = NotFetched(opportunity)
  /\ pc = "idle"
  /\ ret = Null
  /\ fetched = ""
  /\ ScreenIdle
  /\ EnrichIdle /\ ParseIdle /\ OthersIdle

\* getEarliestDeadline(opportunity)
CallGetEarliestDeadline ==
  /\ pc = "idle"
  /\ ret' = getEarliestDeadline(opportunity, variant, engine, tz)
  /\ pc' = "returned"
  /\ UNCHANGED <<envVars, enrichVars, parseVars, nonHomeVars,
               opportunity, fullData, fetched, screenVars>>

\* getEarliestDeadlineFromFullData(opportunity), when it returns without a fetch
CallFromFullDataDirect ==
  /\ pc = "idle"
  /\ HasMilestoneList(opportunity) \/ FetchTarget(opportunity, variant) = ""
  /\ ret' = getEarliestDeadline(opportunity, variant, engine, tz)
  /\ pc' = "settled"
  /\ UNCHANGED <<envVars, enrichVars, parseVars, nonHomeVars,
               opportunity, fullData, fetched, screenVars>>

\* getEarliestDeadlineFromFullData(opportunity), up to await getOpportunityDetails(...)
CallFromFullDataFetch ==
  /\ pc = "idle"
  /\ ~HasMilestoneList(opportunity)
  /\ FetchTarget(opportunity, variant) # ""
  /\ fetched' = FetchTarget(opportunity, variant)
  /\ pc' = "fetching"
  /\ UNCHANGED <<envVars, enrichVars, parseVars, nonHomeVars,
               opportunity, fullData, ret, screenVars>>

\* getOpportunityDetails answers (a record, null, or an exception) and the call ends
FetchSettles ==
  /\ pc = "fetching"
  /\ \E answer \in FetchAnswers(opportunity) :
       /\ fullData' = answer
       /\ ret' = AfterFetch(opportunity, answer, variant, engine, tz)
  /\ pc' = "settled"
  /\ UNCHANGED <<envVars, enrichVars, parseVars, nonHomeVars,
               opportunity, fetched, screenVars>>

NextResolver ==
  \/ CallGetEarliestDeadline
  \/ CallFromFullDataDirect
  \/ CallFromFullDataFetch
  \/ FetchSettles

SpecResolver == InitResolver /\ [][NextResolver]_vars

(***************************************************************************)
(* Properties of the resolver (SpecResolver).                              *)
(***************************************************************************)
MilestoneItems == opportunity.dateMilestones.items

ParsedMilestone(i) == ParseMilestone(MilestoneItems[i], variant, engine, tz)

SomeMilestoneParses ==
  /\ HasMilestoneList(opportunity)
  /\ \E i \in 1..Len(MilestoneItems) : IsValid(ParsedMilestone(i))

\* C1: when the record has a non-empty dateMilestones list of which at least one
\* date parses, getEarliestDeadline returns a valid Date that is the parsed date
\* of one of the milestones and is no later than any parsed milestone date (so
\* it is never the deadline field, the createdAt fallback, or an unparsed entry).
C1_EarliestParsedMilestone ==
  (pc = "returned" /\ SomeMilestoneParses) =>
    /\ IsValid(ret)
    /\ \E i \in 1..Len(MilestoneItems) : ParsedMilestone(i) = ret
    /\ \A i \in 1..Len(MilestoneItems) :
         IsValid(ParsedMilestone(i)) => ret.t <= ParsedMilestone(i).t

\* the later milestone comes first in the list, next to or after an unparseable
\* one in other runs; here the call has returned the second, earlier, one
C1_Witness ==
  /\ pc = "returned"
  /\ Len(MilestoneItems) = 2
  /\ IsValid(ParsedMilestone(1)) /\ IsValid(ParsedMilestone(2))
  /\ ParsedMilestone(2).t < ParsedMilestone(1).t
  /\ ret = ParsedMilestone(2)

\* a list holding an unparseable date and a parseable one resolves
\* to the parseable one
C1_WitnessSkipsUnparsed ==
  /\ pc = "returned"
  /\ Len(MilestoneItems) = 2
  /\ MilestoneItems[1] = BadString
  /\ IsValid(ParsedMilestone(2))
  /\ ret = ParsedMilestone(2)

NoMilestonesNoDeadline(op) == ~HasMilestoneList(op) /\ op.deadline.k = "absent"

\* C2: for a record with no milestones and no deadline getEarliestDeadline
\* returns createdAt + 30 days when createdAt converts to a date, and the
\* current time + 30 days when createdAt is absent or does not convert.
C2_FallbackCreatedAtOrNowPlus30Days ==
  (pc = "returned" /\ NoMilestonesNoDeadline(opportunity)) =>
    LET created == CreatedAtDate(opportunity.createdAt, engine, tz) IN
    IF IsValid(created) /\ opportunity.createdAt.k # "null"
    THEN ret = ValidDate(created.t + ThirtyDays)
    ELSE ret = ValidDate(now + ThirtyDays)

\* C2 (the part the code keeps): createdAt 2025-01-01T00:00Z gives 2025-01-31T00:00Z
C2_CreatedAtPlus30Days ==
  (pc = "returned" /\ NoMilestonesNoDeadline(opportunity)
     /\ opportunity.createdAt = Ts(UtcMidnight(2025, 1, 1))) =>
    ret = ValidDate(UtcMidnight(2025, 1, 31))

\* C3: every call of getEarliestDeadline returns a valid Date.
C3_AlwaysValidDate == pc = "returned" => IsValid(ret)

\* C4: getEarliestDeadlineFromFullData never rejects: whatever
\* getOpportunityDetails answers (a record, null, an exception), and also when no
\* fetch is made, the promise is fulfilled with a Date object.
C4_NeverRejects == pc = "settled" => ret.tag \in {"date", "invalid"}

\* the fetch threw and the call was fulfilled with a date all the same
C4_Witness ==
  /\ pc = "settled"
  /\ fullData.kind = "throws"
  /\ IsValid(ret)

(***************************************************************************)
(* The home screen: filterOpportunities, sortOpportunities,                *)
(* getDisplayedOpportunities.  Both copies of the screen carry the same    *)
(* code for the three; only getEarliestDeadline, used by the deadline      *)
(* comparators, differs.                                                   *)
(***************************************************************************)
\* CATEGORIES: the chips that set selectedCategory ("resources" redirects instead)
CategoryChips == {"all", "saved", "scholarships", "competitions", "workshops", "studySpots"}
RedirectChips == {"resources"}

\* SORT_OPTIONS
SortOptions == {"newest", "oldest", "deadline-soon", "deadline-far"}

\* a ?? b ?? c
Coalesce3(a, b, c) == IF a # Undefined THEN a ELSE IF b # Undefined THEN b ELSE c

\* verified as soon as any of the three paths says so
VerifiedOnAnyPath(op) == "verified" \in {op.profileStatus, op.flatStatus, op.orgStatus}

isOpportunityOrganizationVerified(op) ==
  Coalesce3(op.profileStatus, op.flatStatus, op.orgStatus) = "verified"

\* (op.specificCollection || op.category || "").toLowerCase()
LoweredCollection(op) ==
  ToLowerCase(IF op.specificCollection \notin {Undefined, ""} THEN op.specificCollection
              ELSE StrOrEmpty(op.category))

isNotResource(op) ==
  /\ LoweredCollection(op) # "resources"
  /\ LoweredCollection(op) # "resource"
  /\ op.type # "resources"
  /\ op.type # "resource"

\* the record's partition is compared as written, without toLowerCase()
matchesCategoryExact(op, selected) ==
  \/ selected = "all"
  \/ op.specificCollection = selected

matchesCategory(op, selected) ==
  \/ selected = "all"
  \/ op.specificCollection = selected
  \/ LoweredCollection(op) = ToLowerCase(selected)

FilterKeeps(op, selected) ==
  isNotResource(op) /\ matchesCategory(op, selected) /\ isOpportunityOrganizationVerified(op)

filterOpportunities(opps, selected) ==
  SelectSeq(opps, LAMBDA op : FilterKeeps(op, selected))

\* the Date each comparator of sortOpportunities reads from a record
SortKey(op, key, var, eng, zone) ==
  IF key \in {"newest", "oldest"} THEN CreatedAtDate(op.createdAt, eng, zone)
  ELSE getEarliestDeadline(op, var, eng, zone)

\* dateB.getTime() - dateA.getTime() for "newest" and "deadline-far",
\* dateA.getTime() - dateB.getTime() for "oldest" and "deadline-soon"
CompareKeys(dateA, dateB, key) ==
  CASE key \in {"newest", "deadline-far"} -> TimeDiffSign(dateB, dateA)
    [] key \in {"oldest", "deadline-soon"} -> TimeDiffSign(dateA, dateB)
    [] OTHER -> 0

\* the comparator of sortOpportunities for each sortBy, as the sign of its result
OppCompare(a, b, key, var, eng, zone) ==
  CompareKeys(SortKey(a, key, var, eng, zone), SortKey(b, key, var, eng, zone), key)

\* the lists [...opps].sort(comparator) may return
sortOpportunities(opps, key, var, eng, zone) ==
  {Permute(opps, p) :
     p \in SortOutcomes(Len(opps),
             SignMatrix(opps, [a \in Range(opps), b \in Range(opps) |->
                                 OppCompare(a, b, key, var, eng, zone)]))}

getDisplayedOpportunities(opps, bookmarks, selected, key, var, eng, zone) ==
  sortOpportunities(IF selected = "saved" THEN bookmarks
                    ELSE filterOpportunities(opps, selected),
                    key, var, eng, zone)

isOpportunityBookmarked(bookmarks, opportunityId, specificCollection) ==
  \E i \in 1..Len(bookmarks) :
    /\ bookmarks[i].id = opportunityId
    /\ bookmarks[i].specificCollection = specificCollection

\* what a render shows: the spinner while loading, else the displayed list
Rendered(list) == [done |-> TRUE, list |-> list]

RenderOutcomes(opps, bookmarks, selected, key, isLoading) ==
  IF isLoading THEN {NotRendered}
  ELSE {Rendered(l) :
          l \in getDisplayedOpportunities(opps, bookmarks, selected, key,
                                          variant, engine, tz)}

CallIdle ==
  /\ opportunity = Opp(Undefined, Undefined, Undefined, Undefined, Absent, Absent,
                       NoMilestones, Undefined, Undefined, Undefined)
  /\ fullData = NotFetched(opportunity)
  /\ pc = "idle"
  /\ ret = Null
  /\ fetched = ""

ScreenInit == ScreenIdle /\ CallIdle /\ EnrichIdle /\ ParseIdle /\ OthersIdle

(* Every handler below ends in setState calls, after which React renders    *)
(* the screen again: the render is part of the step.  A load is taken from  *)
(* its start (setLoading(true)) to its end (finally: setLoading(false)) in  *)
(* one step; the list is not rendered in between.  The backend holds the    *)
(* same documents for the whole session.                                    *)

\* fetchOpportunities, getAllActiveOpportunities() resolving.  The enrichment it
\* starts writes opportunityDeadlines only, which the displayed list does not
\* read; LoadOpportunities below is this step with the enrichment followed.
FetchOpportunitiesOk ==
  /\ opportunities' = backend.active
  /\ loading' = FALSE
  /\ displayed' \in RenderOutcomes(backend.active, bookmarkedOpportunities,
                                   selectedCategory, sortBy, FALSE)
  /\ UNCHANGED <<envVars, enrichVars, parseVars, nonHomeVars,
               callVars, bookmarkedOpportunities, selectedCategory, sortBy>>

\* fetchOpportunities, getAllActiveOpportunities() rejecting
FetchOpportunitiesFail ==
  /\ opportunities' = <<>>
  /\ loading' = FALSE
  /\ displayed' \in RenderOutcomes(<<>>, bookmarkedOpportunities, selectedCategory,
                                   sortBy, FALSE)
  /\ UNCHANGED <<envVars, enrichVars, parseVars, nonHomeVars,
               callVars, bookmarkedOpportunities, selectedCategory, sortBy>>

\* fetchBookmarkedOpportunities, getBookmarkedOpportunities(uid) resolving
FetchBookmarksOk ==
  /\ bookmarkedOpportunities' = backend.bookmarked
  /\ displayed' \in RenderOutcomes(opportunities, backend.bookmarked, selectedCategory,
                                   sortBy, loading)
  /\ UNCHANGED <<envVars, enrichVars, parseVars, nonHomeVars,
               callVars, opportunities, selectedCategory, sortBy, loading>>

\* fetchBookmarkedOpportunities, getBookmarkedOpportunities(uid) rejecting
FetchBookmarksFail ==
  /\ bookmarkedOpportunities' = <<>>
  /\ displayed' \in RenderOutcomes(opportunities, <<>>, selectedCategory, sortBy, loading)
  /\ UNCHANGED <<envVars, enrichVars, parseVars, nonHomeVars,
               callVars, opportunities, selectedCategory, sortBy, loading>>

\* a category chip is pressed; the "resources" chip navigates away and sets no
\* state; the bookmark refresh the "saved" chip starts settles as FetchBookmarksOk
\* or FetchBookmarksFail
PressCategory(c) ==
  /\ c \notin RedirectChips
  /\ selectedCategory' = c
  /\ displayed' \in RenderOutcomes(opportunities, bookmarkedOpportunities, c, sortBy,
                                   loading)
  /\ UNCHANGED <<envVars, enrichVars, parseVars, nonHomeVars,
               callVars, opportunities, bookmarkedOpportunities, sortBy,
                 loading>>

\* a sort option is chosen in the sort modal
SelectSort(key) ==
  /\ sortBy' = key
  /\ displayed' \in RenderOutcomes(opportunities, bookmarkedOpportunities,
                                   selectedCategory, key, loading)
  /\ UNCHANGED <<envVars, enrichVars, parseVars, nonHomeVars,
               callVars, opportunities, bookmarkedOpportunities,
                 selectedCategory, loading>>

(***************************************************************************)
(* SpecFeed: the screen over records that differ in partition, category,   *)
(* type and verification.  The record at position i of a backend answer    *)
(* has id FeedIds[i].                                                      *)
(***************************************************************************)
MaxFeed == 2
MaxBookmarks == 1

FeedIds == <<"r1", "r2", "r3", "r4">>

\* <<specificCollection, category, type, profileStatus, flatStatus, orgStatus>>
FeedShapes ==
  {<<"scholarships", "Scholarship / Grant", Undefined, "verified", Undefined, Undefined>>,
   <<"studySpots", "Study Spot", Undefined, Undefined, "verified", Undefined>>,
   <<"Scholarships", "Scholarship / Grant", Undefined, Undefined, Undefined, "verified">>,
   <<"resources", "Resources", Undefined, "verified", Undefined, Undefined>>,
   <<Undefined, "Resources", Undefined, "verified", Undefined, Undefined>>,
   <<"scholarships", "Scholarship / Grant", "Resources", "verified", Undefined, Undefined>>,
   <<"scholarships", "Scholarship / Grant", Undefined, "pending", "verified", Undefined>>,
   <<"scholarships", "Scholarship / Grant", Undefined, Undefined, Undefined, Undefined>>}

FeedRecord(id, day, sh) ==
  Opp(id, sh[1], sh[2], sh[3], Ts(UtcMidnight(2025, 1, day)), Absent, NoMilestones,
      sh[4], sh[5], sh[6])

FeedLists ==
  UNION {{[i \in 1..k |-> FeedRecord(FeedIds[i], i, shapes[i])] :
            shapes \in [1..k -> FeedShapes]} : k \in 0..MaxFeed}

\* what the bookmark store may hold: a record of the feed and a bookmarked resource
BookmarkRecords ==
  {FeedRecord("r1", 1, <<"scholarships", "Scholarship / Grant", Undefined,
                         "verified", Undefined, Undefined>>),
   FeedRecord("x9", 9, <<"resources", "Resources", Undefined,
                         "verified", Undefined, Undefined>>)}

BookmarkLists == SeqsUpTo(BookmarkRecords, MaxBookmarks)

\* the feed records all resolve to createdAt + 30 days: one creation order and
\* one deadline order cover the four
FeedSortKeys == {"newest", "deadline-soon"}

InitFeed ==
  /\ variant = "home"
  /\ engine = "lenient"
  /\ tz = 8
  /\ now \in Clock
  /\ backend \in [active : FeedLists, bookmarked : BookmarkLists]
  /\ ScreenInit

NextFeed ==
  \/ FetchOpportunitiesOk
  \/ FetchOpportunitiesFail
  \/ FetchBookmarksOk
  \/ FetchBookmarksFail
  \/ \E c \in CategoryChips \cup RedirectChips : PressCategory(c)
  \/ \E key \in FeedSortKeys : SelectSort(key)

SpecFeed == InitFeed /\ [][NextFeed]_vars

(***************************************************************************)
(* SpecOrder: the screen over verified scholarship records that differ in  *)
(* createdAt and dateMilestones.                                           *)
(***************************************************************************)
MaxOrder == 3

Record1Milestones == Milestones(<<Text("Dec", 1, 2025, TRUE)>>)
Record2Milestones == Milestones(<<Iso(2025, 11, 20)>>)
Record3Milestones == Milestones(<<BadString, Text("Jan", 5, 2026, TRUE)>>)

\* <<createdAt, dateMilestones>>
OrderShapes ==
  {<<Ts(UtcMidnight(2025, 3, 1)), Record1Milestones>>,
   <<Ts(UtcMidnight(2025, 1, 1)), Record2Milestones>>,
   <<Ts(UtcMidnight(2025, 2, 1)), Record3Milestones>>,
   <<Ts(UtcMidnight(2025, 1, 1)), NoMilestones>>,
   <<Absent, NoMilestones>>,
   <<BadString, NoMilestones>>}

OrderRecord(id, sh) ==
  Opp(id, "scholarships", "Scholarship / Grant", Undefined, sh[1], Absent, sh[2],
      "verified", Undefined, Undefined)

OrderLists ==
  UNION {{[i \in 1..k |-> OrderRecord(FeedIds[i], shapes[i])] :
            shapes \in [1..k -> OrderShapes]} : k \in 0..MaxOrder}

InitOrder ==
  /\ variant \in Variants
  /\ engine \in Engines
  /\ tz = 8
  /\ now \in Clock
  /\ backend \in [active : OrderLists, bookmarked : {<<>>}]
  /\ ScreenInit

NextOrder ==
  \/ FetchOpportunitiesOk
  \/ FetchOpportunitiesFail
  \/ \E key \in SortOptions : SelectSort(key)

SpecOrder == InitOrder /\ [][NextOrder]_vars

(***************************************************************************)
(* Feed filtering.                                                         *)
(***************************************************************************)
InList(list, op) == \E i \in 1..Len(list) : list[i] = op

IdentifiesAsResources(op) ==
  \E f \in {op.category, op.specificCollection, op.type} :
    ToLowerCase(StrOrEmpty(f)) \in {"resources", "resource"}

\* C5: whatever category is selected ("all" and "saved" included), no record of
\* the displayed list is identified as a resource by its category,
\* specificCollection or type, compared case-insensitively.
C5_NoResourceDisplayed ==
  displayed.done =>
    \A i \in 1..Len(displayed.list) : ~IdentifiesAsResources(displayed.list[i])

\* C6: with "saved" selected the displayed list is exactly the bookmarked subset
\* of the fetched collection: every element is a member of the collection and is
\* bookmarked by (id, partition), and every bookmarked member is displayed.
C6_SavedIsBookmarkedSubsetOfFeed ==
  (displayed.done /\ selectedCategory = "saved") =>
    /\ \A i \in 1..Len(displayed.list) :
         /\ InList(opportunities, displayed.list[i])
         /\ isOpportunityBookmarked(bookmarkedOpportunities, displayed.list[i].id,
                                    displayed.list[i].specificCollection)
    /\ \A j \in 1..Len(opportunities) :
         isOpportunityBookmarked(bookmarkedOpportunities, opportunities[j].id,
                                 opportunities[j].specificCollection)
           => InList(displayed.list, opportunities[j])

FirstPopulatedIsVerified(op) ==
  \/ op.profileStatus = "verified"
  \/ op.profileStatus = Undefined /\ op.flatStatus = "verified"
  \/ op.profileStatus = Undefined /\ op.flatStatus = Undefined /\ op.orgStatus = "verified"

CategoryOf(op) ==
  ToLowerCase(IF op.specificCollection \notin {Undefined, ""} THEN op.specificCollection
              ELSE StrOrEmpty(op.category))

\* C8: for a selectedCategory other than "all" and "saved", a non-resource
\* verified record is kept by filterOpportunities, and displayed, if and only if
\* its category equals selectedCategory case-insensitively; this holds for each
\* chip of the screen.
C8_CategoryMatchIff ==
  /\ \A c \in CategoryChips \ {"all", "saved"} :
       \A j \in 1..Len(opportunities) :
         (isNotResource(opportunities[j]) /\ FirstPopulatedIsVerified(opportunities[j]))
           => (InList(filterOpportunities(opportunities, c), opportunities[j])
                 <=> CategoryOf(opportunities[j]) = ToLowerCase(c))
  /\ (displayed.done /\ selectedCategory \notin {"all", "saved"}) =>
       \A j \in 1..Len(opportunities) :
         (isNotResource(opportunities[j]) /\ FirstPopulatedIsVerified(opportunities[j]))
           => (InList(displayed.list, opportunities[j])
                 <=> CategoryOf(opportunities[j]) = ToLowerCase(selectedCategory))

\* the scholarships chip shows a record filed under "Scholarships" and holds back
\* a verified study spot
C8_Witness ==
  /\ displayed.done
  /\ selectedCategory = "scholarships"
  /\ \E i \in 1..Len(displayed.list) : displayed.list[i].specificCollection = "Scholarships"
  /\ \E j \in 1..Len(opportunities) :
       /\ opportunities[j].specificCollection = "studySpots"
       /\ FirstPopulatedIsVerified(opportunities[j])
       /\ ~InList(displayed.list, opportunities[j])

(***************************************************************************)
(* Feed ordering.                                                          *)
(***************************************************************************)
Reverse(seq) == [i \in 1..Len(seq) |-> seq[Len(seq) + 1 - i]]

Count(seq, x) == Cardinality({i \in 1..Len(seq) : seq[i] = x})

SameMultiset(a, b) ==
  /\ Len(a) = Len(b)
  /\ \A i \in 1..Len(a) : Count(a, a[i]) = Count(b, a[i])

\* every record carries a createdAt and no two carry the same
DistinctCreatedAt(list) ==
  /\ \A i \in 1..Len(list) : list[i].createdAt \notin {Absent, JsNull}
  /\ \A i, j \in 1..Len(list) : i # j => list[i].createdAt # list[j].createdAt

\* every createdAt converts to an instant
CreatedAtAllConvert(list) ==
  \A i \in 1..Len(list) : IsValid(CreatedAtDate(list[i].createdAt, engine, tz))

NewestThenOldestReverses ==
  /\ SameMultiset(displayed.list, filterOpportunities(opportunities, selectedCategory))
  /\ \A o \in sortOpportunities(displayed.list, "oldest", variant, engine, tz) :
       /\ o = Reverse(displayed.list)
       /\ SameMultiset(o, displayed.list)

\* C9: for a list with pairwise distinct createdAt values, sorting "newest" and
\* then sorting the result "oldest" gives exactly the reverse of the "newest"
\* order, and neither sort changes the multiset of records.
C9_NewestThenOldestIsReverse ==
  (displayed.done /\ sortBy = "newest" /\ DistinctCreatedAt(opportunities))
    => NewestThenOldestReverses

\* the same, for lists whose createdAt values all convert to an instant
C9_ReverseWhenCreatedAtConverts ==
  (displayed.done /\ sortBy = "newest" /\ DistinctCreatedAt(opportunities)
     /\ CreatedAtAllConvert(opportunities))
    => NewestThenOldestReverses

DeadlineOf(op) == getEarliestDeadline(op, variant, engine, tz)

Record1 == OrderRecord("r1", <<Ts(UtcMidnight(2025, 3, 1)), Record1Milestones>>)
Record2 == OrderRecord("r2", <<Ts(UtcMidnight(2025, 1, 1)), Record2Milestones>>)
Record3 == OrderRecord("r3", <<Ts(UtcMidnight(2025, 2, 1)), Record3Milestones>>)

\* C10: "deadline-soon" displays the records by non-decreasing resolved deadline
\* and "deadline-far" by non-increasing; a record with some unparseable
\* milestones ranks by its earliest parseable one, so milestones [Dec 1, 2025],
\* [2025-11-20], [bad-date, Jan 5, 2026] come out as record2, record1, record3.
C10_DeadlineOrder ==
  displayed.done =>
    /\ sortBy = "deadline-soon" =>
         \A i, j \in 1..Len(displayed.list) :
           (i < j /\ IsValid(DeadlineOf(displayed.list[i]))
                  /\ IsValid(DeadlineOf(displayed.list[j])))
             => DeadlineOf(displayed.list[i]).t <= DeadlineOf(displayed.list[j]).t
    /\ sortBy = "deadline-far" =>
         \A i, j \in 1..Len(displayed.list) :
           (i < j /\ IsValid(DeadlineOf(displayed.list[i]))
                  /\ IsValid(DeadlineOf(displayed.list[j])))
             => DeadlineOf(displayed.list[i]).t >= DeadlineOf(displayed.list[j]).t
    /\ (sortBy = "deadline-soon" /\ opportunities = <<Record1, Record2, Record3>>)
         => displayed.list = <<Record2, Record1, Record3>>

\* the deadline order over records that all resolve to a valid deadline
C10_OrderWhenAllResolve ==
  (displayed.done /\ sortBy = "deadline-soon"
     /\ \A i \in 1..Len(opportunities) : IsValid(DeadlineOf(opportunities[i])))
    => \A i, j \in 1..Len(displayed.list) :
         i < j => DeadlineOf(displayed.list[i]).t <= DeadlineOf(displayed.list[j]).t

\* the example of C10 alone
C10_Example ==
  (displayed.done /\ sortBy = "deadline-soon"
     /\ opportunities = <<Record1, Record2, Record3>>)
    => displayed.list = <<Record2, Record1, Record3>>

(***************************************************************************)
(* fetchOpportunityDeadlines: the deadlines of the loaded records are      *)
(* resolved batch by batch.  An invocation is a record                     *)
(*   opps         the list it was called with                              *)
(*   i            the loop variable                                        *)
(*   pending      positions of the batch whose getOpportunityDetails call  *)
(*                is in flight                                             *)
(*   results      the deadlines the settled promises of the batch hold     *)
(*   deadlineMap  the Map filled so far                                    *)
(*   batches      the length of every batch sliced so far (the screen copy *)
(*                in authDebugService.js logs it)                          *)
(*   done         setOpportunityDeadlines(deadlineMap) has been called     *)
(* Positions count from 1.                                                 *)
(***************************************************************************)
batchSize == 5

Min(a, b) == IF a < b THEN a ELSE b

\* a slice that stops one record early
BatchPositionsShort(opps, i) == (i + 1)..Min(i + batchSize - 1, Len(opps))

\* opps.slice(i, i + batchSize)
BatchPositions(opps, i) == (i + 1)..Min(i + batchSize, Len(opps))

\* getEarliestDeadlineFromFullData(op) reaches await getOpportunityDetails(...)
NeedsFetch(op, var) == ~HasMilestoneList(op) /\ FetchTarget(op, var) # ""

\* Map.prototype.set
MapSet(map, key, value) ==
  [k \in DOMAIN map \cup {key} |-> IF k = key THEN value ELSE map[k]]

NewLoop(opps) ==
  [opps |-> opps, i |-> 0, pending |-> {}, results |-> EmptyMap,
   deadlineMap |-> EmptyMap, batches |-> <<>>, done |-> FALSE]

\* batch.map(async (op) => ...): every callback runs up to its first await, so
\* the records that need the full record have their fetch in flight and the
\* others are resolved already
StartBatch(loop, var, eng, zone) ==
  [loop EXCEPT
     !.pending = {p \in BatchPositions(loop.opps, loop.i) : NeedsFetch(loop.opps[p], var)},
     !.results = [p \in {q \in BatchPositions(loop.opps, loop.i) :
                           ~NeedsFetch(loop.opps[q], var)} |->
                    getEarliestDeadline(loop.opps[p], var, eng, zone)],
     !.batches = Append(@, Cardinality(BatchPositions(loop.opps, loop.i)))]

\* the loop test i < opps.length: the next batch, or the end of the loop
ContinueLoop(loop, var, eng, zone) ==
  IF loop.i < Len(loop.opps) THEN StartBatch(loop, var, eng, zone)
  ELSE [loop EXCEPT !.done = TRUE]

\* try { await getEarliestDeadlineFromFullData(op) } catch { getEarliestDeadline(op) }
ItemDeadline(op, settled, var, eng, zone) ==
  IF settled = Rejected THEN getEarliestDeadline(op, var, eng, zone) ELSE settled

RECURSIVE SetResults(_, _, _, _, _)
\* results.forEach(({ id, deadline }) => deadlineMap.set(id, deadline))
SetResults(map, opps, results, p, last) ==
  IF p > last THEN map
  ELSE SetResults(MapSet(map, opps[p].id, results[p]), opps, results, p + 1, last)

\* the batch is recorded and i += batchSize
RecordBatch(loop) ==
  [loop EXCEPT
     !.deadlineMap = SetResults(@, loop.opps, loop.results, loop.i + 1,
                                Min(loop.i + batchSize, Len(loop.opps))),
     !.results = EmptyMap,
     !.i = @ + batchSize]

\* setOpportunityDeadlines(deadlineMap) once the loop has ended
StateAfter(loop, current) == IF loop.done THEN loop.deadlineMap ELSE current

\* getOpportunityDetails as the enrichment sees it: the full record with its
\* milestones, nothing, or an exception
EnrichAnswers(op) ==
  {FetchNull(op), FetchThrows(op),
   FetchRecord([op EXCEPT !.dateMilestones = Milestones(<<Text("Dec", 1, 2025, TRUE)>>)])}

\* fetchOpportunities with getAllActiveOpportunities() resolving: the records
\* are set, fetchOpportunityDeadlines(data) is called without await and runs up
\* to its first await, then the finally block clears the loading flag.  At most
\* maxLoops invocations are followed.
LoadOpportunities(maxLoops) ==
  /\ Len(loops) < maxLoops
  /\ opportunities' = backend.active
  /\ loading' = FALSE
  /\ displayed' \in RenderOutcomes(backend.active, bookmarkedOpportunities,
                                   selectedCategory, sortBy, FALSE)
  /\ loops' = Append(loops, ContinueLoop(NewLoop(backend.active), variant, engine, tz))
  /\ opportunityDeadlines' = StateAfter(loops'[Len(loops')], opportunityDeadlines)
  /\ UNCHANGED <<envVars, parseVars, nonHomeVars, callVars, bookmarkedOpportunities,
                 selectedCategory, sortBy>>

\* getOpportunityDetails of position p of invocation k answers and the promise
\* of that item settles
DetailsAnswer(k, p) ==
  /\ p \in loops[k].pending
  /\ \E answer \in EnrichAnswers(loops[k].opps[p]) :
       loops' = [loops EXCEPT
                   ![k].pending = @ \ {p},
                   ![k].results =
                     MapSet(@, p, ItemDeadline(loops[k].opps[p],
                                    AfterFetch(loops[k].opps[p], answer, variant, engine, tz),
                                    variant, engine, tz))]
  /\ UNCHANGED <<envVars, parseVars, nonHomeVars, callVars, screenVars,
                 opportunityDeadlines>>

\* await Promise.all(deadlinePromises) resumes invocation k: the results are
\* put in the map and the loop goes on or ends
BatchSettled(k) ==
  /\ ~loops[k].done
  /\ loops[k].pending = {}
  /\ loops' = [loops EXCEPT ![k] = ContinueLoop(RecordBatch(@), variant, engine, tz)]
  /\ opportunityDeadlines' = StateAfter(loops'[k], opportunityDeadlines)
  /\ UNCHANGED <<envVars, parseVars, nonHomeVars, callVars, screenVars>>

(***************************************************************************)
(* SpecBatch: one invocation of fetchOpportunityDeadlines over a list of   *)
(* up to MaxEnrich records.  Every third record carries its milestones in  *)
(* the preview, the others need the full record.                           *)
(***************************************************************************)
MaxEnrich == 12

EnrichIds ==
  <<"o1", "o2", "o3", "o4", "o5", "o6", "o7", "o8", "o9", "o10", "o11", "o12",
    "o13", "o14">>

EnrichShapes ==
  <<[category |-> "Scholarship / Grant", partition |-> "scholarships",
     milestones |-> NoMilestones],
    [category |-> "Mentorship", partition |-> "opportunities",
     milestones |-> NoMilestones],
    [category |-> "Workshop / Seminar", partition |-> "workshops",
     milestones |-> Milestones(<<Iso(2025, 11, 20)>>)]>>

EnrichRecord(p, sh) ==
  Opp(EnrichIds[p], sh.partition, sh.category, Undefined, Ts(UtcMidnight(2025, 1, 1)),
      Absent, sh.milestones, "verified", Undefined, Undefined)

EnrichLists ==
  {[p \in 1..n |-> EnrichRecord(p, EnrichShapes[(p % 3) + 1])] : n \in 0..MaxEnrich}

InitBatch ==
  /\ variant \in Variants
  /\ engine = "lenient"
  /\ tz = 8
  /\ now \in Clock
  /\ backend \in [active : EnrichLists, bookmarked : {<<>>}]
  /\ ScreenInit

NextBatch ==
  \/ LoadOpportunities(1)
  \/ \E k \in 1..Len(loops) : \E p \in 1..Len(loops[k].opps) : DetailsAnswer(k, p)
  \/ \E k \in 1..Len(loops) : BatchSettled(k)

SpecBatch == InitBatch /\ [][NextBatch]_vars

(***************************************************************************)
(* Properties of the batch enrichment (SpecBatch).                         *)
(***************************************************************************)
\* 5, ..., 5 and the remainder: ceil(n / 5) batches for n records
ExpectedBatches(n) ==
  [b \in 1..((n + 4) \div 5) |-> IF 5 * b <= n THEN 5 ELSE n - 5 * (b - 1)]

IdsOf(opps) == {opps[p].id : p \in 1..Len(opps)}

IsPrefix(s, t) == Len(s) <= Len(t) /\ \A x \in 1..Len(s) : s[x] = t[x]

\* C11: an invocation of fetchOpportunityDeadlines over n records slices
\* ceil(n / 5) batches of 5, ..., 5 and the remainder, one after the other: the
\* only records being resolved are those of the batch sliced last, and every
\* record of the earlier batches is in the map already.  When the invocation
\* ends the map it hands to setOpportunityDeadlines holds the id of every one
\* of the n records, whatever the fetches answered.
C11_BatchesInSequenceAllIdsCached ==
  \A k \in 1..Len(loops) :
    /\ IsPrefix(loops[k].batches, ExpectedBatches(Len(loops[k].opps)))
    /\ (loops[k].pending \cup DOMAIN loops[k].results) \subseteq
         (5 * (Len(loops[k].batches) - 1) + 1)..(5 * Len(loops[k].batches))
    /\ \A p \in 1..Len(loops[k].opps) :
         p <= 5 * (Len(loops[k].batches) - 1) =>
           loops[k].opps[p].id \in DOMAIN loops[k].deadlineMap
    /\ loops[k].done =>
         /\ loops[k].batches = ExpectedBatches(Len(loops[k].opps))
         /\ DOMAIN loops[k].deadlineMap = IdsOf(loops[k].opps)
         /\ opportunityDeadlines = loops[k].deadlineMap

\* twelve records were enriched in batches of 5, 5 and 2; the fetch of the
\* first record did not bring milestones, the fetch of the fourth did, and the
\* map holds twelve ids
C11_Witness ==
  /\ Len(loops) = 1
  /\ loops[1].done
  /\ Len(loops[1].opps) = 12
  /\ loops[1].batches = <<5, 5, 2>>
  /\ Cardinality(DOMAIN opportunityDeadlines) = 12
  /\ NeedsFetch(loops[1].opps[1], variant) /\ NeedsFetch(loops[1].opps[4], variant)
  /\ opportunityDeadlines["o1"] = getEarliestDeadline(loops[1].opps[1], variant, engine, tz)
  /\ opportunityDeadlines["o4"] # getEarliestDeadline(loops[1].opps[4], variant, engine, tz)

(***************************************************************************)
(* SpecSession: a screen session.  The mount effect and every              *)
(* pull-to-refresh call fetchOpportunities, which starts an invocation of  *)
(* fetchOpportunityDeadlines without awaiting it; nothing keeps a second   *)
(* load from starting while the enrichment of the first is under way.      *)
(* Up to MaxLoads loads of up to MaxSession records are followed.          *)
(***************************************************************************)
MaxLoads == 2
MaxSession == 3

SessionLists ==
  {[p \in 1..n |-> EnrichRecord(p, EnrichShapes[1])] : n \in 0..MaxSession}

InitSession ==
  /\ variant \in Variants
  /\ engine = "lenient"
  /\ tz = 8
  /\ now \in Clock
  /\ backend \in [active : SessionLists, bookmarked : {<<>>}]
  /\ ScreenInit

NextSession ==
  \/ LoadOpportunities(MaxLoads)
  \/ FetchOpportunitiesFail
  \/ \E k \in 1..Len(loops) : \E p \in 1..Len(loops[k].opps) : DetailsAnswer(k, p)
  \/ \E k \in 1..Len(loops) : BatchSettled(k)

SpecSession == InitSession /\ [][NextSession]_vars

RECURSIVE InFlightUpTo(_)
\* getOpportunityDetails calls in flight in the first k invocations
InFlightUpTo(k) ==
  IF k = 0 THEN 0 ELSE InFlightUpTo(k - 1) + Cardinality(loops[k].pending)

InFlight == InFlightUpTo(Len(loops))

\* C12: at every moment of a screen session, however the initial load and the
\* reloads interleave, at most 5 getOpportunityDetails calls of the deadline
\* enrichment are in flight.
C12_AtMostFiveInFlight == InFlight <= 5

\* C12 (the part the code keeps): one invocation has at most 5 calls in flight
C12_AtMostFivePerInvocation ==
  \A k \in 1..Len(loops) : Cardinality(loops[k].pending) <= 5

(***************************************************************************)
(* Properties of getEarliestDeadlineFromFullData (SpecResolver).           *)
(***************************************************************************)
FromPreview == getEarliestDeadline(opportunity, variant, engine, tz)

\* C13: when getOpportunityDetails throws, answers nothing, or answers a full
\* record without milestones (dateMilestones absent or empty),
\* getEarliestDeadlineFromFullData returns getEarliestDeadline of the preview
\* record it was given.
C13_FallbackToPreview ==
  (pc = "settled" /\ fullData.kind \in {"throws", "null", "record"}
     /\ (fullData.kind = "record" => ~HasMilestoneList(fullData.rec))) =>
    ret = FromPreview

\* C13 (the part the code keeps): the same, for a full record whose
\* dateMilestones field is absent
C13_FallbackWhenFailedOrAbsent ==
  (pc = "settled" /\ fullData.kind \in {"throws", "null", "record"}
     /\ (fullData.kind = "record" => ~fullData.rec.dateMilestones.present)) =>
    ret = FromPreview

CarriesMilestones ==
  opportunity.dateMilestones.present /\ Len(opportunity.dateMilestones.items) > 0

\* C14: for a record that carries a non-empty dateMilestones list
\* getEarliestDeadlineFromFullData never calls getOpportunityDetails, and what
\* it returns is getEarliestDeadline of that record.
C14_NoFetchWithMilestones ==
  CarriesMilestones =>
    /\ pc # "fetching"
    /\ fetched = ""
    /\ fullData = NotFetched(opportunity)
    /\ pc = "settled" => ret = FromPreview

\* the call has ended without a fetch for a record that names a partition
\* from which the full record could have been fetched
C14_Witness ==
  /\ CarriesMilestones
  /\ pc = "settled"
  /\ fetched = ""
  /\ FetchTarget(opportunity, variant) # ""
  /\ IsValid(ret)

\* the partition the category -> partition table gives the record
PartitionOfCategory(op) == getCollectionNameForCategory(op.category)

\* C15: a record whose category is not in the category -> partition table maps
\* to the generic partition "opportunities", and
\* getEarliestDeadlineFromFullData never calls getOpportunityDetails for a
\* record whose partition is the generic one.
C15_GenericPartitionNeverFetched ==
  /\ opportunity.category \notin DOMAIN categoryMap =>
       PartitionOfCategory(opportunity) = "opportunities"
  /\ PartitionOfCategory(opportunity) = "opportunities" =>
       pc # "fetching" /\ fetched = ""

\* C15 (the part the code keeps): the copy of the screen that has the table
\* never fetches such a record
C15_GenericNeverFetchedWithTable ==
  (variant = "flex" /\ PartitionOfCategory(opportunity) = "opportunities") =>
    pc # "fetching" /\ fetched = ""

(***************************************************************************)
(* Properties of the "newest" and "oldest" sorts (SpecOrder).              *)
(***************************************************************************)
\* the creation time of a record, epoch 0 when createdAt does not convert
EpochZeroKey(op) ==
  IF IsValid(CreatedAtDate(op.createdAt, engine, tz))
  THEN CreatedAtDate(op.createdAt, engine, tz).t
  ELSE 0

\* C16: under "newest" and "oldest" a record whose createdAt is absent or does
\* not parse is compared as if it had been created at epoch 0: the displayed
\* list is ordered by that key (descending for "newest", ascending for
\* "oldest"), so such a record comes last under "newest" and first under
\* "oldest" and the other records keep the order of their creation times.
C16_UnparseableCreatedAtAsEpochZero ==
  (displayed.done /\ sortBy \in {"newest", "oldest"}) =>
    \A i, j \in 1..Len(displayed.list) :
      i < j =>
        IF sortBy = "newest"
        THEN EpochZeroKey(displayed.list[i]) >= EpochZeroKey(displayed.list[j])
        ELSE EpochZeroKey(displayed.list[i]) <= EpochZeroKey(displayed.list[j])

\* C16 (the part the code keeps): the lists whose createdAt values all convert
\* are displayed in the order of their creation times
C16_OrderedWhenCreatedAtConverts ==
  (displayed.done /\ sortBy \in {"newest", "oldest"}
     /\ CreatedAtAllConvert(opportunities)) =>
    \A i, j \in 1..Len(displayed.list) :
      i < j =>
        IF sortBy = "newest"
        THEN EpochZeroKey(displayed.list[i]) >= EpochZeroKey(displayed.list[j])
        ELSE EpochZeroKey(displayed.list[i]) <= EpochZeroKey(displayed.list[j])

(***************************************************************************)
(* SpecParse: the milestone date conversion (parseFlexibleDate in one copy *)
(* of the screen, parseMilestoneDate in the other) applied to single       *)
(* values, one conversion per step.                                        *)
(***************************************************************************)
Nov18Short == Text("Nov", 18, 2025, TRUE)        \* "Nov 18, 2025"
Nov18Long == Text("November", 18, 2025, TRUE)    \* "November 18, 2025"
Nov18Iso == Iso(2025, 11, 18)                    \* "2025-11-18"

ParseInputs ==
  {Nov18Short, Nov18Long, Nov18Iso, Text("Nov", 18, 2025, FALSE), BadString,
   Ts(UtcMidnight(2025, 11, 18) + 9)}

InitParse ==
  /\ EnvInit
  /\ backend = [active |-> <<>>, bookmarked |-> <<>>]
  /\ ScreenInit

\* the conversion is applied to one more value
ConvertDate(v) ==
  /\ v \notin DOMAIN conversions
  /\ conversions' = MapSet(conversions, v, ParseMilestone(v, variant, engine, tz))
  /\ UNCHANGED <<envVars, callVars, screenVars, enrichVars, nonHomeVars>>

NextParse == \E v \in ParseInputs : ConvertDate(v)

SpecParse == InitParse /\ [][NextParse]_vars

\* the day, counted from 1970-01-01, on which an instant falls on the calendar
\* of the device (what toLocaleDateString shows)
LocalDay(t, zone) == (t + zone) \div 24

Nov18Converted == {Nov18Short, Nov18Long, Nov18Iso} \subseteq DOMAIN conversions

\* C17: "Nov 18, 2025", "November 18, 2025" and "2025-11-18" all convert, and
\* to the same calendar date.
C17_ThreeFormsSameCalendarDate ==
  Nov18Converted =>
    \A v \in {Nov18Short, Nov18Long, Nov18Iso} :
      /\ IsValid(conversions[v])
      /\ LocalDay(conversions[v].t, tz) = DaysFromCivil(2025, 11, 18)

\* C17 (the part the code keeps): the copy with parseFlexibleDate, on a device
\* east of Greenwich, converts the three forms to 18 November 2025
C17_SameDateEastOfGreenwich ==
  (Nov18Converted /\ variant = "flex" /\ tz >= 0) =>
    \A v \in {Nov18Short, Nov18Long, Nov18Iso} :
      /\ IsValid(conversions[v])
      /\ LocalDay(conversions[v].t, tz) = DaysFromCivil(2025, 11, 18)

(***************************************************************************)
(* forgotPasswordService: sendVerificationCode, verifyCode, resetPassword  *)
(* for one email address.  The document passwordResetCodes/<email> is      *)
(* shared by every call; a call runs from one await to the next in one     *)
(* step, and calls interleave at their awaits.  Firestore reads and writes *)
(* are taken to succeed.  Time is in minutes of the device clock.          *)
(*                                                                         *)
(* A suspended call is a record                                            *)
(*   kind     "verifyCode" or "resetPassword"                              *)
(*   entered  the code it was given                                        *)
(*   data     verificationDoc.data() as getDoc answered it                 *)
(*   late     now > expiresAt held when it was evaluated                   *)
(*   pc       the await it is suspended at                                 *)
(*   failedBefore  how many calls had ended with "Invalid code" against    *)
(*                 the stored code when this call read it                  *)
(* createdAt (serverTimestamp()) is kept as the serial number of the       *)
(* sendVerificationCode call that wrote the document; issues[serial]       *)
(* tallies the calls that read that document.                              *)
(***************************************************************************)
ExpiryMinutes == 10
AttemptLimit == 3

ResetCodes == {"111111", "222222"}

\* the document setDoc writes in sendVerificationCode
IssuedDoc(code, serial, time) ==
  [exists |-> TRUE, code |-> code, createdAt |-> serial,
   expiresAt |-> time + ExpiryMinutes, attempts |-> 0, maxAttempts |-> AttemptLimit]

\* begun: calls that read the code; mismatched: calls that compared a wrong
\* code with it; failed: of those, the ones that have thrown "Invalid code";
\* resets: resetPassword calls that have succeeded on it
NoTally == [begun |-> 0, mismatched |-> 0, failed |-> 0, resets |-> 0]

\* now > expiresAt
Expired(data, time) == time > data.expiresAt

\* verificationData.attempts >= verificationData.maxAttempts
AttemptsExhausted(data) == data.attempts >= data.maxAttempts

\* where verifyCode stands after getDoc has answered: "done", or the await of
\* the write its branch makes
AfterGetDoc(kind, entered, data, time) ==
  CASE ~data.exists -> "done"
    [] data.exists /\ Expired(data, time) -> "deleteExpired"
    [] data.exists /\ ~Expired(data, time) /\ AttemptsExhausted(data) -> "deleteExhausted"
    [] data.exists /\ ~Expired(data, time) /\ ~AttemptsExhausted(data)
         /\ data.code # entered -> "setAttempts"
    [] OTHER -> IF kind = "resetPassword" THEN "deleteVerified" ELSE "done"

\* how a call ends: "success" or the error it throws
Outcome(call) ==
  CASE call.pc = "deleteExpired" -> "expired"
    [] call.pc = "deleteExhausted" -> "too-many"
    [] call.pc = "setAttempts" -> "invalid"
    [] call.pc = "deleteVerified" -> "success"
    [] OTHER -> IF call.data.exists THEN "success" ELSE "not-found"

\* setDoc(ref, {...verificationData, attempts: attempts + 1}, {merge: true})
WithOneMoreAttempt(data) == [data EXCEPT !.attempts = @ + 1]

\* the document after the write a suspended call makes
DocAfterWrite(call) ==
  IF call.pc = "setAttempts" THEN WithOneMoreAttempt(call.data) ELSE NoDoc

Tally(serial) == IF serial \in 1..Len(issues) THEN issues[serial] ELSE NoTally

\* what is remembered of a call that ends: how it ended, which stored code it
\* had read, and whether a resetPassword had succeeded on that code before
Summary(call) ==
  [outcome |-> Outcome(call), serial |-> call.data.createdAt,
   late |-> call.late, failedBefore |-> call.failedBefore,
   afterReset |-> Tally(call.data.createdAt).resets > 0]

NewCall(kind, entered) ==
  [kind |-> kind, entered |-> entered, data |-> resetDoc,
   late |-> resetDoc.exists /\ Expired(resetDoc, clock),
   failedBefore |-> Tally(resetDoc.createdAt).failed,
   pc |-> AfterGetDoc(kind, entered, resetDoc, clock)]

\* the tallies after a call has read the document
TallyBegun(call) ==
  IF call.data.exists
  THEN [issues EXCEPT ![call.data.createdAt].begun = @ + 1,
                      ![call.data.createdAt].mismatched =
                         IF call.pc = "setAttempts" THEN @ + 1 ELSE @]
  ELSE issues

\* the tallies after a suspended call has ended
TallyEnded(call) ==
  [issues EXCEPT ![call.data.createdAt].failed =
                    IF call.pc = "setAttempts" THEN @ + 1 ELSE @,
                 ![call.data.createdAt].resets =
                    IF call.pc = "deleteVerified" THEN @ + 1 ELSE @]

RECURSIVE BegunUpTo(_)
\* the calls that have read a stored code, over the first n codes
BegunUpTo(n) == IF n = 0 THEN 0 ELSE BegunUpTo(n - 1) + issues[n].begun

MaxIssues == 2
MaxCalls == 4
MaxClock == 12

\* sendVerificationCode(email): the code is stored; whether the e-mail goes
\* out afterwards changes nothing in the store
SendVerificationCode(code) ==
  /\ Len(issues) < MaxIssues
  /\ resetDoc' = IssuedDoc(code, Len(issues) + 1, clock)
  /\ issues' = Append(issues, NoTally)
  /\ UNCHANGED <<nonResetVars, clock, calls, ended, sending, sent>>

\* verifyCode(email, entered), alone or as the first statement of
\* resetPassword(email, newPassword, entered): getDoc answers and the call
\* runs to its end or to the await of its write.  At most MaxCalls calls
\* that find a stored code are followed.
BeginCall(kind, entered) ==
  /\ BegunUpTo(Len(issues)) < MaxCalls
  /\ issues' = TallyBegun(NewCall(kind, entered))
  /\ IF NewCall(kind, entered).pc = "done"
     THEN /\ ended' = ended \cup {Summary(NewCall(kind, entered))}
          /\ calls' = calls
     ELSE /\ calls' = calls (+) SetToBag({NewCall(kind, entered)})
          /\ ended' = ended
  /\ UNCHANGED <<nonResetVars, resetDoc, clock, sending, sent>>

\* the deleteDoc / setDoc a call is suspended at is applied and the call ends
CallWrites(call) ==
  /\ BagIn(call, calls)
  /\ resetDoc' = DocAfterWrite(call)
  /\ calls' = calls (-) SetToBag({call})
  /\ ended' = ended \cup {Summary(call)}
  /\ issues' = TallyEnded(call)
  /\ UNCHANGED <<nonResetVars, clock, sending, sent>>

\* the clock is looked at at intervals a little over half the life of a code
TickMinutes == ExpiryMinutes \div 2 + 1

\* time passes
Tick ==
  /\ clock + TickMinutes <= MaxClock
  /\ clock' = clock + TickMinutes
  /\ UNCHANGED <<nonResetVars, resetDoc, calls, ended, issues, sending, sent>>

InitReset ==
  /\ variant = "home"
  /\ engine = "lenient"
  /\ tz = 8
  /\ now \in Clock
  /\ backend = [active |-> <<>>, bookmarked |-> <<>>]
  /\ ScreenInit

NextReset ==
  \/ \E code \in ResetCodes : SendVerificationCode(code)
  \/ \E kind \in {"verifyCode", "resetPassword"} : \E entered \in ResetCodes :
       BeginCall(kind, entered)
  \/ \E call \in BagToSet(calls) : CallWrites(call)
  \/ Tick

SpecReset == InitReset /\ [][NextReset]_vars

(***************************************************************************)
(* Properties of the reset codes (SpecReset).                              *)
(***************************************************************************)
\* C18: at most 3 incorrect attempts are ever compared with one stored code,
\* and once 3 calls have ended with "Invalid code" against it no later call
\* with that code succeeds, however the calls for the email interleave.
C18_AtMostThreeAttempts ==
  /\ \A n \in 1..Len(issues) : issues[n].mismatched <= 3
  /\ \A e \in ended : e.outcome = "success" => e.failedBefore < 3

\* C18 (the part the code keeps): the attempts counter of the stored document
\* never exceeds the limit
C18_CounterWithinLimit == resetDoc.exists => resetDoc.attempts <= AttemptLimit

\* C19: a stored code expires 10 minutes after it was issued: a call that
\* evaluates it later than that fails with the expired error, never with
\* success, and removes the document, so that the expired code is not found
\* in the store afterwards.
C19_ExpiredCodeFailsAndIsRemoved ==
  /\ \A call \in BagToSet(calls) : call.late => call.pc = "deleteExpired"
  /\ \A e \in ended : e.late => e.outcome = "expired"
  /\ \A e \in ended :
       e.outcome = "expired" => ~(resetDoc.exists /\ resetDoc.createdAt = e.serial)

\* C19 (the part the code keeps): no call that evaluates a code after its
\* expiry succeeds, and a code is good for 10 minutes from the clock of its issue
C19_NoSuccessAfterExpiry ==
  /\ \A call \in BagToSet(calls) : call.late => call.pc = "deleteExpired"
  /\ \A e \in ended : e.late => e.outcome = "expired"
  /\ resetDoc.exists => resetDoc.expiresAt <= clock + 10

\* C20: resetPassword goes on to succeed only when the verifyCode it runs
\* finds the stored code valid and equal to the code given; after a
\* resetPassword has succeeded the verification data of the email is gone, and
\* no later resetPassword or verifyCode succeeds on that code.
C20_ResetConsumesCode ==
  /\ \A call \in BagToSet(calls) :
       call.pc = "deleteVerified" =>
         /\ call.data.exists /\ call.data.code = call.entered
         /\ ~call.late /\ call.data.attempts < call.data.maxAttempts
  /\ \A e \in ended : e.outcome = "success" => ~e.afterReset
  /\ \A n \in 1..Len(issues) :
       issues[n].resets > 0 => ~(resetDoc.exists /\ resetDoc.createdAt = n)

\* C20 (the part the code keeps): resetPassword reaches its cleanup only with
\* a code that verifyCode has just accepted
C20_ResetOnlyWithVerifiedCode ==
  \A call \in BagToSet(calls) :
    call.pc = "deleteVerified" =>
      /\ call.kind = "resetPassword"
      /\ call.data.exists /\ call.data.code = call.entered
      /\ ~call.late /\ call.data.attempts < call.data.maxAttempts

(***************************************************************************)
(* ThemeProvider (src/contexts/ThemeContext.tsx).                          *)
(* AsyncStorage answers its requests in the order they were made; a        *)
(* request and the continuation of the await on it are one step.  The      *)
(* effect that derives isDark is a step of its own, run after the render   *)
(* that changed one of its dependencies.                                   *)
(***************************************************************************)
MaxThemeEvents == 4

ThemeModes == {"light", "dark", "auto"}
ColorSchemes == {"light", "dark", "null"}

\* the home screen and the reset service at rest, on a fixed environment
HomeAtRest ==
  /\ variant = "home" /\ engine = "lenient" /\ tz = 8 /\ now \in Clock
  /\ backend = [active |-> <<>>, bookmarked |-> <<>>]
  /\ ScreenIdle /\ CallIdle /\ EnrichIdle /\ ParseIdle

\* savedTheme && (savedTheme === "light" || ... "dark" || ... "auto")
SavedIsValid(savedTheme) == savedTheme # "none" /\ savedTheme \in ThemeModes

\* what the theme effect sets isDark to
IsDarkFor(mode, scheme) == IF mode = "auto" THEN scheme = "dark" ELSE mode = "dark"

\* toggleTheme's choice of the mode to set
ToggleTarget(mode) == IF mode = "light" THEN "dark" ELSE "light"

\* the request loadTheme makes, and the one setThemeMode makes
GetItem == [op |-> "get", mode |-> "auto", toggle |-> FALSE]
SetItem(mode, toggle) == [op |-> "set", mode |-> mode, toggle |-> toggle]

\* the themeMode state after a request is answered, were setThemeMode to set
\* the state before it awaits the write
ModeAfterEager(req, ok, saved, mode) ==
  IF req.op = "set" THEN req.mode
  ELSE IF ok /\ SavedIsValid(saved) THEN saved ELSE mode

\* the themeMode state after a request is answered
ModeAfter(req, ok, saved, mode) ==
  IF ~ok THEN mode
  ELSE IF req.op = "set" THEN req.mode
  ELSE IF SavedIsValid(saved) THEN saved ELSE mode

\* the effects have run on the current themeMode and colour scheme
EffectsRun == effectDeps = <<themeMode, systemColorScheme>>

\* a fresh ThemeProvider: the initial states of useState, loadTheme started
FreshProvider ==
  /\ themeMode = "auto"
  /\ isDark = FALSE
  /\ effectDeps = <<>>
  /\ storageOps = <<GetItem>>
  /\ themeLoaded = "pending"
  /\ lastSave = "none"
  /\ lastToggle = NoToggle

\* useEffect(..., [themeMode, systemColorScheme])
ThemeEffect ==
  /\ ~EffectsRun
  /\ isDark' = IsDarkFor(themeMode, systemColorScheme)
  /\ effectDeps' = <<themeMode, systemColorScheme>>
  /\ UNCHANGED <<nonThemeVars, themeStore, themeMode, systemColorScheme, storageOps,
                 themeLoaded, lastSave, lastToggle, themeEvents>>

\* the device switches its colour scheme
SystemSchemeChanges(scheme) ==
  /\ themeEvents < MaxThemeEvents
  /\ scheme # systemColorScheme
  /\ systemColorScheme' = scheme
  /\ lastToggle' = [lastToggle EXCEPT !.clean = FALSE]
  /\ themeEvents' = themeEvents + 1
  /\ UNCHANGED <<nonThemeVars, themeStore, themeMode, isDark, effectDeps, storageOps,
                 themeLoaded, lastSave>>

\* setThemeMode(mode), up to its await
SetThemeMode(mode) ==
  /\ themeEvents < MaxThemeEvents
  /\ storageOps' = Append(storageOps, SetItem(mode, FALSE))
  /\ lastToggle' = [lastToggle EXCEPT !.clean = FALSE]
  /\ themeEvents' = themeEvents + 1
  /\ UNCHANGED <<nonThemeVars, themeStore, themeMode, isDark, systemColorScheme,
                 effectDeps, themeLoaded, lastSave>>

\* toggleTheme(), up to the await of the setThemeMode it calls
ToggleTheme ==
  /\ themeEvents < MaxThemeEvents
  /\ storageOps' = Append(storageOps, SetItem(ToggleTarget(themeMode), TRUE))
  /\ lastToggle' = [state |-> "pending", from |-> themeMode, before |-> isDark,
                    clean |-> EffectsRun /\ storageOps = <<>>]
  /\ themeEvents' = themeEvents + 1
  /\ UNCHANGED <<nonThemeVars, themeStore, themeMode, isDark, systemColorScheme,
                 effectDeps, themeLoaded, lastSave>>

\* AsyncStorage answers its oldest request; the awaiting function goes on to its end
StorageAnswers(ok) ==
  /\ storageOps # <<>>
  /\ LET req == Head(storageOps)
     IN /\ storageOps' = Tail(storageOps)
        /\ themeStore' = IF ok /\ req.op = "set" THEN req.mode ELSE themeStore
        /\ themeMode' = ModeAfter(req, ok, themeStore, themeMode)
        /\ themeLoaded' = IF req.op = "get" THEN (IF ok THEN "ok" ELSE "failed")
                          ELSE themeLoaded
        /\ lastSave' = IF req.op = "set" THEN (IF ok THEN "ok" ELSE "failed")
                       ELSE lastSave
        /\ lastToggle' = IF req.toggle
                         THEN [lastToggle EXCEPT !.state = IF ok THEN "ok" ELSE "failed"]
                         ELSE lastToggle
  /\ UNCHANGED <<nonThemeVars, isDark, systemColorScheme, effectDeps, themeEvents>>

\* the app is closed and opened again: a fresh ThemeProvider over the same storage
RestartApp ==
  /\ themeEvents < MaxThemeEvents
  /\ storageOps = <<>>
  /\ themeMode' = "auto"
  /\ isDark' = FALSE
  /\ effectDeps' = <<>>
  /\ storageOps' = <<GetItem>>
  /\ themeLoaded' = "pending"
  /\ lastSave' = "none"
  /\ lastToggle' = NoToggle
  /\ themeEvents' = themeEvents + 1
  /\ UNCHANGED <<nonThemeVars, themeStore, systemColorScheme>>

InitTheme ==
  /\ HomeAtRest /\ ResetIdle /\ OfflineIdle /\ AuthIdle
  /\ themeStore \in {"none"} \cup ThemeModes
  /\ systemColorScheme \in ColorSchemes
  /\ FreshProvider
  /\ themeEvents = 0

NextTheme ==
  \/ ThemeEffect
  \/ \E scheme \in ColorSchemes : SystemSchemeChanges(scheme)
  \/ \E mode \in ThemeModes : SetThemeMode(mode)
  \/ ToggleTheme
  \/ \E ok \in BOOLEAN : StorageAnswers(ok)
  \/ RestartApp

SpecTheme == InitTheme /\ [][NextTheme]_vars

(***************************************************************************)
(* Properties of the theme (SpecTheme).                                    *)
(***************************************************************************)
\* the last toggleTheme was tapped with the effects run and nothing pending,
\* has been written successfully, nothing else happened since, and the
\* effects have run again
ToggleDone ==
  /\ lastToggle.state = "ok"
  /\ lastToggle.clean
  /\ storageOps = <<>>
  /\ EffectsRun

\* C21: from every combination of themeMode (light, dark, auto) and system
\* colour scheme, one successful toggleTheme flips isDark once the theme
\* effects have run.
C21_ToggleFlipsIsDark == ToggleDone => isDark # lastToggle.before

\* C21 (the part the code keeps): the toggle flips isDark whenever it starts
\* from a dark screen or from an explicit mode
C21_ToggleFlipsFromDarkOrExplicit ==
  (ToggleDone /\ (lastToggle.before \/ lastToggle.from # "auto")) =>
    isDark # lastToggle.before

\* C22: once loadTheme has loaded from storage, the in-memory themeMode is the
\* persisted value whenever one is stored: a setThemeMode that succeeds sets
\* both, one that fails sets neither, and a fresh provider reads back the
\* value the last successful setThemeMode stored.
C22_ThemeModeIsPersistedValue ==
  (themeLoaded = "ok" /\ themeStore # "none") => themeMode = themeStore

\* a fresh provider, after a restart, has read the stored "dark" back, and a
\* provider whose last setThemeMode failed still agrees with the store
C22_Witness ==
  /\ themeLoaded = "ok"
  /\ storageOps = <<>>
  /\ \/ themeEvents > 1 /\ lastSave = "none" /\ themeMode = "dark"
     \/ lastSave = "failed" /\ themeStore = "light"

(***************************************************************************)
(* OfflineFileManager (src/services/offlineFileManager.js).                *)
(* Sizes are counted in units of 50MB.  Each operation of the manager runs *)
(* to its end before the next one starts.                                  *)
(***************************************************************************)
MaxOfflineOps == 5

\* 500 * 1024 * 1024 bytes
MAX_STORAGE_SIZE == 10

\* MAX_STORAGE_SIZE * 0.8
CleanupTarget == (MAX_STORAGE_SIZE * 8) \div 10

\* the resources offered for download: id, generateSafeFileName(...) of the
\* name, and the size of the file behind the URL; r4's name is made safe to
\* the file name of r1
Resources ==
  { [id |-> "r1", fileName |-> "guide_1.pdf", size |-> 1],
    [id |-> "r2", fileName |-> "notes.pdf", size |-> 4],
    [id |-> "r3", fileName |-> "handbook.pdf", size |-> 7],
    [id |-> "r4", fileName |-> "guide_1.pdf", size |-> 6] }

\* the metadata record of a download
OfflineFile(resource, time) ==
  [id |-> resource.id, filePath |-> resource.fileName, lastAccessedAt |-> time]

\* the metadata list and the document directory together
Storage(files, dir) == [files |-> files, disk |-> dir]

\* fileInfo.exists ? fileInfo.size || 0 : nothing
SizeOnDisk(dir, filePath) == IF filePath \in DOMAIN dir THEN dir[filePath] ELSE 0

RECURSIVE UsedUpTo(_, _, _)
UsedUpTo(files, dir, n) ==
  IF n = 0 THEN 0
  ELSE UsedUpTo(files, dir, n - 1) + SizeOnDisk(dir, files[n].filePath)

\* getStorageUsed()
GetStorageUsed(st) == UsedUpTo(st.files, st.disk, Len(st.files))

\* the bytes the listed files hold in the document directory
BytesOnDisk(files, dir) ==
  LET paths == {files[i].filePath : i \in 1..Len(files)} \cap DOMAIN dir
      RECURSIVE Sum(_)
      Sum(ps) == IF ps = {} THEN 0
                 ELSE LET q == CHOOSE q \in ps : TRUE IN dir[q] + Sum(ps \ {q})
  IN Sum(paths)

\* FileSystem.deleteAsync(filePath)
DeleteAsync(dir, filePath) == [q \in DOMAIN dir \ {filePath} |-> dir[q]]

\* files.find(f => f.id === fileId) succeeds
Listed(files, fileId) == \E i \in 1..Len(files) : files[i].id = fileId

\* files.find(f => f.id === fileId)
FindFile(files, fileId) ==
  files[CHOOSE i \in 1..Len(files) :
          /\ files[i].id = fileId
          /\ \A j \in 1..(i - 1) : files[j].id # fileId]

\* deleteOfflineFile(fileId) on a listed id: the file of the first match is
\* deleted, every record with the id is filtered out
DeleteListed(st, fileId) ==
  Storage(SelectSeq(st.files, LAMBDA f : f.id # fileId),
          DeleteAsync(st.disk, FindFile(st.files, fileId).filePath))

RECURSIVE InsertByAccess(_, _)
\* f put behind the records accessed no later than it
InsertByAccess(sorted, f) ==
  IF sorted = <<>> THEN <<f>>
  ELSE IF sorted[Len(sorted)].lastAccessedAt > f.lastAccessedAt
    THEN Append(InsertByAccess(SubSeq(sorted, 1, Len(sorted) - 1), f),
                sorted[Len(sorted)])
    ELSE Append(sorted, f)

RECURSIVE SortedUpTo(_, _)
SortedUpTo(files, n) ==
  IF n = 0 THEN <<>> ELSE InsertByAccess(SortedUpTo(files, n - 1), files[n])

\* files.sort((a, b) => a.lastAccessedAt.getTime() - b.lastAccessedAt.getTime())
SortedFiles(files) == SortedUpTo(files, Len(files))

RECURSIVE CleanupFrom(_, _, _)
\* for (const file of sortedFiles) { deleteOfflineFile; getStorageUsed; break }
\* a deleteOfflineFile that throws 'File not found' ends the loop in the catch
CleanupFrom(st, sortedFiles, k) ==
  IF k > Len(sortedFiles) THEN st
  ELSE IF ~Listed(st.files, sortedFiles[k].id) THEN st
  ELSE LET after == DeleteListed(st, sortedFiles[k].id)
       IN IF GetStorageUsed(after) <= CleanupTarget THEN after
          ELSE CleanupFrom(after, sortedFiles, k + 1)

\* manageStorageLimit()
ManageStorageLimit(st) ==
  IF GetStorageUsed(st) > MAX_STORAGE_SIZE
  THEN CleanupFrom(st, SortedFiles(st.files), 1)
  ELSE st

\* what an operation leaves in lastOp
Done(op, before, after) ==
  [op |-> op,
   evicted |-> Range(before) \ Range(after),
   kept |-> Range(after)]

\* updateLastAccessed(fileId)
Touch(files, fileId, time) ==
  [i \in 1..Len(files) |->
     IF files[i].id = fileId THEN [files[i] EXCEPT !.lastAccessedAt = time]
     ELSE files[i]]

\* downloadFileForOffline(resource, ...): download, saveFileMetadata,
\* manageStorageLimit
DownloadFileForOffline(resource) ==
  /\ offlineClock < MaxOfflineOps
  /\ offlineClock' = offlineClock + 1
  /\ LET saved == Append(offlineFiles, OfflineFile(resource, offlineClock + 1))
         after == ManageStorageLimit(
                    Storage(saved, MapSet(disk, resource.fileName, resource.size)))
     IN /\ offlineFiles' = after.files
        /\ disk' = after.disk
        /\ lastOp' = Done("download", saved, after.files)
  /\ repeated' = (repeated \/ \E i \in 1..Len(offlineFiles) :
                                \/ offlineFiles[i].id = resource.id
                                \/ offlineFiles[i].filePath = resource.fileName)
  /\ UNCHANGED nonOfflineVars

\* openFile(file) on a record of the downloads screen
OpenFile(i) ==
  /\ offlineClock < MaxOfflineOps
  /\ offlineClock' = offlineClock + 1
  /\ offlineFiles' = IF offlineFiles[i].filePath \in DOMAIN disk
                     THEN Touch(offlineFiles, offlineFiles[i].id, offlineClock + 1)
                     ELSE offlineFiles
  /\ lastOp' = Done("open", offlineFiles, offlineFiles')
  /\ UNCHANGED <<nonOfflineVars, disk, repeated>>

\* deleteOfflineFile(file.id) from the downloads screen
DeleteOfflineFile(i) ==
  /\ offlineClock < MaxOfflineOps
  /\ offlineClock' = offlineClock + 1
  /\ LET after == DeleteListed(Storage(offlineFiles, disk), offlineFiles[i].id)
     IN /\ offlineFiles' = after.files
        /\ disk' = after.disk
        /\ lastOp' = Done("delete", offlineFiles, after.files)
  /\ UNCHANGED <<nonOfflineVars, repeated>>

\* clearAllOfflineFiles()
ClearAllOfflineFiles ==
  /\ offlineClock < MaxOfflineOps
  /\ offlineFiles # <<>>
  /\ offlineClock' = offlineClock + 1
  /\ offlineFiles' = <<>>
  /\ disk' = [q \in DOMAIN disk \ {offlineFiles[i].filePath : i \in 1..Len(offlineFiles)}
                |-> disk[q]]
  /\ lastOp' = Done("clear", offlineFiles, <<>>)
  /\ UNCHANGED <<nonOfflineVars, repeated>>

InitOffline == HomeAtRest /\ ResetIdle /\ ThemeIdle /\ AuthIdle /\ OfflineIdle

NextOffline ==
  \/ \E resource \in Resources : DownloadFileForOffline(resource)
  \/ \E i \in 1..Len(offlineFiles) : OpenFile(i)
  \/ \E i \in 1..Len(offlineFiles) : DeleteOfflineFile(i)
  \/ ClearAllOfflineFiles

SpecOffline == InitOffline /\ [][NextOffline]_vars

(***************************************************************************)
(* Properties of the offline storage (SpecOffline).                        *)
(***************************************************************************)
\* after a completed download the listed files hold at most the limit
WithinLimitAfterDownload ==
  lastOp.op = "download" => BytesOnDisk(offlineFiles, disk) <= MAX_STORAGE_SIZE

\* the cleanup of a download removed no record while keeping one that was
\* accessed less recently
LeastRecentFirst ==
  lastOp.op = "download" =>
    \A e \in lastOp.evicted : \A f \in lastOp.kept :
      f.lastAccessedAt >= e.lastAccessedAt

\* C23: after every completed download the total size of the offline files is
\* at most the 500MB limit, and the cleanup deleted files in order of least
\* recent lastAccessedAt: no file was deleted while a less recently accessed
\* file is kept.
C23_WithinLimitLeastRecentFirst == WithinLimitAfterDownload /\ LeastRecentFirst

\* C23 (the part the code keeps): the same, as long as no download reused an
\* id or a file name that was still in the list
C23_HoldsWithoutRepeatedDownload ==
  ~repeated => (WithinLimitAfterDownload /\ LeastRecentFirst)

(***************************************************************************)
(* AuthProvider (src/contexts/AuthContext.tsx) and logOut                  *)
(* (authServices).  Time is counted in days.  AsyncStorage answers its     *)
(* requests in the order they were made; the answer and the continuation   *)
(* of the await on it, up to the next await, are one step.  Firebase       *)
(* answers in any order.  An effect runs in the step that changes one of   *)
(* its dependencies.                                                       *)
(***************************************************************************)
MaxRefreshes == 1

\* 30 * 24 * 60 * 60 * 1000 ms
thirtyDaysInMs == 30

\* now - timestamp < thirtyDaysInMs, with "<=" in place of "<"
SessionFreshInclusive(now_, timestamp) == now_ - timestamp <= thirtyDaysInMs

\* now - timestamp < thirtyDaysInMs
SessionFresh(now_, timestamp) == now_ - timestamp < thirtyDaysInMs

\* authState[1] && sessionTimestamp[1]
BothStored(store) == store.auth /\ store.timestamp # NoTimestamp

\* an async function suspended at the await named by pc
Task(kind, at, uid, profile) == [kind |-> kind, pc |-> at, user |-> uid, profile |-> profile]

\* what a previous run of the app can have left in storage: saveAuthState
\* writes auth_state, then session_timestamp, then profile_data
StoredSessions ==
  { NothingStored,
    [auth |-> TRUE, profile |-> FALSE, timestamp |-> NoTimestamp],
    [auth |-> TRUE, profile |-> FALSE, timestamp |-> 0],
    [auth |-> TRUE, profile |-> TRUE, timestamp |-> 0] }

\* the first await of saveAuthState(user, profile)
SaveAuthStateFrom(uid) == IF uid = "null" THEN "multiRemove" ELSE "setAuth"

\* loadAuthState, from the answer of multiGet to its return or to its
\* multiRemove; initializeAuth sets sessionValid when it returns the auth data
LoadReads(task) ==
  /\ task.kind = "loadAuthState" /\ task.pc = "multiGet"
  /\ LET fresh == BothStored(authStore) /\ SessionFresh(authNow, authStore.timestamp)
         expired == BothStored(authStore) /\ ~fresh
         restored == fresh /\ authStore.profile
     IN /\ profileData' = IF restored THEN "cached" ELSE profileData
        /\ sessionValid' = IF fresh THEN TRUE ELSE sessionValid
        /\ pendingNotify' = (pendingNotify \/ restored)
        /\ storageQueue' = IF expired
                           THEN Append(Tail(storageQueue), [task EXCEPT !.pc = "multiRemove"])
                           ELSE Tail(storageQueue)
        /\ loadResult' = [done |-> ~expired, read |-> authStore, now |-> authNow,
                          returned |-> IF fresh THEN "authData" ELSE "null",
                          profileRestored |-> restored, validSet |-> fresh,
                          removed |-> FALSE, after |-> authStore]
  /\ UNCHANGED <<authStore, firebaseUser, tasks>>

\* loadAuthState: the multiRemove of an expired session, and return null
LoadRemoves(task) ==
  /\ task.kind = "loadAuthState" /\ task.pc = "multiRemove"
  /\ authStore' = NothingStored
  /\ storageQueue' = Tail(storageQueue)
  /\ loadResult' = [loadResult EXCEPT !.done = TRUE, !.removed = TRUE,
                                      !.after = NothingStored]
  /\ UNCHANGED <<firebaseUser, profileData, sessionValid, pendingNotify, tasks>>

\* saveAuthState(user, profile) goes one await further; the caller sets
\* sessionValid when it returns
SaveStep(task) ==
  /\ task.kind \in {"listener", "refreshProfile"}
  /\ authStore' =
       IF task.pc = "setAuth" THEN [authStore EXCEPT !.auth = TRUE]
       ELSE IF task.pc = "setTimestamp" THEN [authStore EXCEPT !.timestamp = authNow]
       ELSE IF task.pc = "setProfile" THEN [authStore EXCEPT !.profile = TRUE]
       ELSE NothingStored
  /\ IF task.pc = "setAuth"
     THEN /\ storageQueue' = Append(Tail(storageQueue), [task EXCEPT !.pc = "setTimestamp"])
          /\ UNCHANGED sessionValid
     ELSE IF task.pc = "setTimestamp" /\ task.profile # "null"
     THEN /\ storageQueue' = Append(Tail(storageQueue), [task EXCEPT !.pc = "setProfile"])
          /\ UNCHANGED sessionValid
     ELSE /\ storageQueue' = Tail(storageQueue)
          /\ sessionValid' = (task.pc # "multiRemove")
  /\ UNCHANGED <<firebaseUser, profileData, pendingNotify, tasks, loadResult>>

\* logOut: its multiRemove is answered, signOut(auth) is called
LogOutRemoves(task) ==
  /\ task.kind = "logOut"
  /\ authStore' = NothingStored
  /\ storageQueue' = Tail(storageQueue)
  /\ tasks' = tasks (+) SetToBag({[task EXCEPT !.pc = "signOut"]})
  /\ UNCHANGED <<firebaseUser, profileData, sessionValid, pendingNotify, loadResult>>

\* AsyncStorage answers its oldest request
StorageAnswersAuth ==
  /\ storageQueue # <<>>
  /\ \/ LoadReads(Head(storageQueue))
     \/ LoadRemoves(Head(storageQueue))
     \/ SaveStep(Head(storageQueue))
     \/ LogOutRemoves(Head(storageQueue))
  /\ UNCHANGED <<nonAuthVars, authNow, user, loggedOut, refreshes>>

\* onAuthStateChanged calls the subscribed callback: setUser, saveAuthState up
\* to its first await; the effect on [user?.uid] runs when the uid changed
Notify ==
  /\ pendingNotify
  /\ user' = firebaseUser
  /\ storageQueue' = Append(storageQueue,
                            Task("listener", SaveAuthStateFrom(firebaseUser),
                                 firebaseUser, profileData))
  /\ IF firebaseUser = user
     THEN /\ pendingNotify' = FALSE
          /\ UNCHANGED <<tasks, profileData, sessionValid>>
     ELSE IF firebaseUser # "null"
     THEN /\ tasks' = tasks (+) SetToBag({Task("refreshProfile", "getUserProfile",
                                               firebaseUser, "null")})
          /\ pendingNotify' = FALSE
          /\ UNCHANGED <<profileData, sessionValid>>
     ELSE /\ profileData' = "null"
          /\ sessionValid' = FALSE
          /\ pendingNotify' = (profileData # "null")
          /\ UNCHANGED tasks
  /\ UNCHANGED <<nonAuthVars, authStore, authNow, firebaseUser, loadResult, loggedOut,
                 refreshes>>

\* refreshProfile: getUserProfile answers
ProfileAnswers(task, ok) ==
  /\ task.kind = "refreshProfile"
  /\ tasks' = tasks (-) SetToBag({task})
  /\ IF ok
     THEN /\ profileData' = "fetched"
          /\ pendingNotify' = TRUE
          /\ storageQueue' = Append(storageQueue,
                                    [task EXCEPT !.pc = "setAuth", !.profile = "fetched"])
          /\ UNCHANGED sessionValid
     ELSE /\ sessionValid' = FALSE
          /\ UNCHANGED <<profileData, pendingNotify, storageQueue>>
  /\ UNCHANGED <<nonAuthVars, authStore, authNow, firebaseUser, user, loadResult,
                 loggedOut, refreshes>>

\* a screen calls refreshProfile()
RefreshProfile ==
  /\ refreshes < MaxRefreshes
  /\ user # "null"
  /\ refreshes' = refreshes + 1
  /\ tasks' = tasks (+) SetToBag({Task("refreshProfile", "getUserProfile", user, "null")})
  /\ loggedOut' = IF loggedOut = "no" THEN "no" ELSE "busy"
  /\ UNCHANGED <<nonAuthVars, authStore, authNow, firebaseUser, user, profileData,
                 sessionValid, pendingNotify, storageQueue, loadResult>>

\* signIn succeeds
SignIn ==
  /\ loggedOut = "no"
  /\ firebaseUser = "null"
  /\ firebaseUser' = "u1"
  /\ pendingNotify' = TRUE
  /\ UNCHANGED <<nonAuthVars, authStore, authNow, user, profileData, sessionValid,
                 tasks, storageQueue, loadResult, loggedOut, refreshes>>

\* the signed-in user confirms "Log out": logOut() up to its first await
LogOut ==
  /\ loggedOut = "no"
  /\ user # "null" /\ firebaseUser # "null"
  /\ loggedOut' = IF tasks = EmptyBag /\ storageQueue = <<>> /\ ~pendingNotify
                  THEN "quiet" ELSE "busy"
  /\ storageQueue' = Append(storageQueue, Task("logOut", "multiRemove", user, "null"))
  /\ UNCHANGED <<nonAuthVars, authStore, authNow, firebaseUser, user, profileData,
                 sessionValid, pendingNotify, tasks, loadResult, refreshes>>

\* logOut: signOut(auth) resolves
SignedOut(task) ==
  /\ task.kind = "logOut"
  /\ firebaseUser' = "null"
  /\ pendingNotify' = TRUE
  /\ tasks' = tasks (-) SetToBag({task})
  /\ UNCHANGED <<nonAuthVars, authStore, authNow, user, profileData, sessionValid,
                 storageQueue, loadResult, loggedOut, refreshes>>

\* a fresh AuthProvider over what an earlier run left in storage
InitStartup ==
  /\ HomeAtRest /\ ResetIdle /\ ThemeIdle /\ OfflineIdle
  /\ authStore \in StoredSessions
  /\ authNow \in {thirtyDaysInMs - 1, thirtyDaysInMs, thirtyDaysInMs + 1}
  /\ firebaseUser \in {"null", "u1"}
  /\ user = "null"
  /\ profileData = "null"
  /\ sessionValid = FALSE
  /\ pendingNotify = TRUE
  /\ tasks = EmptyBag
  /\ storageQueue = <<Task("loadAuthState", "multiGet", "null", "null")>>
  /\ loadResult = NotLoaded
  /\ loggedOut = "no"
  /\ refreshes = 0

\* the app starts and nobody touches it
NextStartup ==
  \/ StorageAnswersAuth
  \/ Notify
  \/ \E task \in BagToSet(tasks) : \E ok \in BOOLEAN : ProfileAnswers(task, ok)

SpecStartup == InitStartup /\ [][NextStartup]_vars

\* the app starts signed out, with nothing stored or with a whole session
\* stored less than 30 days before
InitAuth ==
  /\ InitStartup
  /\ authStore.profile = authStore.auth
  /\ authNow = thirtyDaysInMs - 1
  /\ firebaseUser = "null"

NextAuth ==
  \/ StorageAnswersAuth
  \/ Notify
  \/ \E task \in BagToSet(tasks) : \E ok \in BOOLEAN : ProfileAnswers(task, ok)
  \/ RefreshProfile
  \/ SignIn
  \/ LogOut
  \/ \E task \in BagToSet(tasks) : SignedOut(task)

SpecAuth == InitAuth /\ [][NextAuth]_vars

(***************************************************************************)
(* Properties of the stored session (SpecStartup, SpecAuth).               *)
(***************************************************************************)
\* C24: loadAuthState restores a stored session (returns the auth data,
\* restores the cached profile, sessionValid is set) only if auth_state and
\* session_timestamp were both stored and the timestamp is less than 30 days
\* old; when both were stored and the timestamp is 30 days old or older it
\* restores nothing, returns null, and its multiRemove leaves none of
\* auth_state, profile_data and session_timestamp.
C24_RestoreOnlyFreshSession ==
  loadResult.done =>
    /\ (loadResult.returned = "authData" \/ loadResult.profileRestored
          \/ loadResult.validSet) =>
         /\ BothStored(loadResult.read)
         /\ loadResult.now - loadResult.read.timestamp < 30
    /\ (BothStored(loadResult.read)
          /\ loadResult.now - loadResult.read.timestamp >= 30) =>
         /\ loadResult.returned = "null"
         /\ ~loadResult.profileRestored /\ ~loadResult.validSet
         /\ loadResult.removed /\ loadResult.after = NothingStored

\* a session exactly 30 days old has been removed and not restored
C24_Witness ==
  /\ loadResult.done /\ loadResult.removed
  /\ loadResult.now - loadResult.read.timestamp = 30
  /\ loadResult.read.profile /\ loadResult.returned = "null"

\* logOut has signed the user out, the listener has reported no user, and
\* nothing is pending
LoggedOutAndSettled ==
  /\ loggedOut # "no"
  /\ firebaseUser = "null" /\ user = "null"
  /\ tasks = EmptyBag /\ storageQueue = <<>> /\ ~pendingNotify

\* C27: after logOut, once the auth listener has reported no user and every
\* pending asynchronous operation has settled, storage holds none of
\* auth_state, profile_data and session_timestamp, and sessionValid is false.
C27_NothingLeftAfterLogOut ==
  LoggedOutAndSettled => (authStore = NothingStored /\ ~sessionValid)

\* C27 (the part the code keeps): the same, when nothing was in flight at the
\* moment logOut was called
C27_NothingLeftAfterQuietLogOut ==
  (LoggedOutAndSettled /\ loggedOut = "quiet") =>
    (authStore = NothingStored /\ ~sessionValid)

(***************************************************************************)
(* SpecRefresh: the home screen over a backend whose collection changes    *)
(* between loads.  Loads overlap as in SpecSession; the sort option is     *)
(* chosen at any time.  Every third record carries its milestones in the   *)
(* preview, the others need the full record.                               *)
(***************************************************************************)
MaxShown == 3

RefreshLists ==
  {[p \in 1..n |-> EnrichRecord(p, EnrichShapes[(p % 3) + 1])] : n \in 0..MaxShown}

\* the active opportunities of the backend become another collection
BackendChanges(list) ==
  /\ list # backend.active
  /\ backend' = [backend EXCEPT !.active = list]
  /\ UNCHANGED <<variant, engine, tz, now, callVars, screenVars, enrichVars, parseVars,
                 nonHomeVars>>

InitRefresh ==
  /\ variant = "home"
  /\ engine = "lenient"
  /\ tz = 8
  /\ now \in Clock
  /\ backend \in [active : RefreshLists, bookmarked : {<<>>}]
  /\ ScreenInit

NextRefresh ==
  \/ LoadOpportunities(MaxLoads)
  \/ \E list \in RefreshLists : BackendChanges(list)
  \/ \E key \in SortOptions : SelectSort(key)
  \/ \E k \in 1..Len(loops) : \E p \in 1..Len(loops[k].opps) : DetailsAnswer(k, p)
  \/ \E k \in 1..Len(loops) : BatchSettled(k)

SpecRefresh == InitRefresh /\ [][NextRefresh]_vars

\* opportunityDeadlines.get(op.id) || getEarliestDeadline(op), the value the
\* card of op formats as its deadline
CardDeadline(op) ==
  IF op.id \in DOMAIN opportunityDeadlines /\ opportunityDeadlines[op.id].tag # "null"
  THEN opportunityDeadlines[op.id]
  ELSE DeadlineOf(op)

\* the list is on screen under a deadline sort and the cache is populated
DeadlineSortedWithCache ==
  /\ displayed.done
  /\ sortBy \in {"deadline-soon", "deadline-far"}
  /\ opportunityDeadlines # EmptyMap

\* C25: whenever the list is rendered with a deadline sort while the id->date
\* cache is populated, the deadline shown on each card is the value the sort
\* comparator ranked the card by, so the deadlines shown are non-decreasing
\* down the list for "deadline-soon" and non-increasing for "deadline-far".
C25_CardShowsSortedDeadline ==
  DeadlineSortedWithCache =>
    /\ \A i \in 1..Len(displayed.list) :
         CardDeadline(displayed.list[i]) = DeadlineOf(displayed.list[i])
    /\ \A i, j \in 1..Len(displayed.list) :
         i < j =>
           IF sortBy = "deadline-soon"
           THEN CardDeadline(displayed.list[i]).t <= CardDeadline(displayed.list[j]).t
           ELSE CardDeadline(displayed.list[i]).t >= CardDeadline(displayed.list[j]).t

\* C25 (the part the code keeps): the list itself is in the order of the
\* deadlines the comparator resolves from the preview records
C25_ListOrderedByPreviewDeadline ==
  DeadlineSortedWithCache =>
    \A i, j \in 1..Len(displayed.list) :
      i < j =>
        IF sortBy = "deadline-soon"
        THEN DeadlineOf(displayed.list[i]).t <= DeadlineOf(displayed.list[j]).t
        ELSE DeadlineOf(displayed.list[i]).t >= DeadlineOf(displayed.list[j]).t

\* every invocation of fetchOpportunityDeadlines has ended
EnrichmentsSettled == \A k \in 1..Len(loops) : loops[k].done

\* C26: when loads overlap, once every fetch and enrichment has settled the
\* id->date cache is the one computed from the collection the screen holds:
\* the map of the enrichment started by the last load, never the map of an
\* enrichment started for a superseded collection.
C26_CacheOfCurrentCollection ==
  (loops # <<>> /\ EnrichmentsSettled) =>
    opportunityDeadlines = loops[Len(loops)].deadlineMap

\* C26 (the part the code keeps): once settled, the cache is the map of one of
\* the enrichments that ran
C26_CacheOfSomeEnrichment ==
  (loops # <<>> /\ EnrichmentsSettled) =>
    \E k \in 1..Len(loops) : opportunityDeadlines = loops[k].deadlineMap


(***************************************************************************)
(* sendVerificationCode await by await (SpecSend).  The call generates a   *)
(* code, computes expiresAt from the device clock, awaits setDoc and then  *)
(* awaits sendPasswordResetEmail; either await may reject, and the catch   *)
(* block turns the rejection into the Error the call throws.  A suspended  *)
(* call is a record                                                        *)
(*   code       the code it generated                                      *)
(*   expiresAt  the expiry it computed before the first await              *)
(*   pc         "setDoc" or "sendEmail": the await it is suspended at      *)
(*   serial     the serial of the document its setDoc wrote, 0 when none   *)
(* and an ended call is remembered by its code, that serial and how it     *)
(* ended: "resolved" or the message of the Error thrown.                   *)
(***************************************************************************)
MaxSends == 3

\* error.code of a rejected setDoc and of a rejected sendPasswordResetEmail
FirestoreErrors == {"permission-denied"}
AuthErrors ==
  {"auth/user-not-found", "auth/invalid-email", "auth/too-many-requests",
   "auth/network-request-failed"}

\* the catch block of sendVerificationCode: the message of the Error thrown
SendErrorMessage(errorCode) ==
  CASE errorCode = "auth/user-not-found" -> "No account found with this email address"
    [] errorCode = "auth/invalid-email" -> "Invalid email address"
    [] errorCode = "auth/too-many-requests" -> "Too many requests. Please try again later"
    [] OTHER -> "Failed to send verification code. Please try again"

SendEnded(call, outcome) ==
  [code |-> call.code, serial |-> call.serial, outcome |-> outcome]

\* sendVerificationCode(email) up to its first await
BeginSend(code) ==
  /\ BagCardinality(sending) + BagCardinality(sent) < MaxSends
  /\ sending' = sending (+) SetToBag({[code |-> code, expiresAt |-> clock + ExpiryMinutes,
                                       pc |-> "setDoc", serial |-> 0]})
  /\ UNCHANGED <<nonResetVars, resetDoc, clock, calls, ended, issues, sent>>

\* setDoc answers: the document is written and the call goes on to
\* sendPasswordResetEmail, or the write is refused and the call throws
SetDocAnswers(call, ok) ==
  /\ BagIn(call, sending)
  /\ call.pc = "setDoc"
  /\ IF ok
     THEN /\ Len(issues) < MaxIssues
          /\ resetDoc' = [IssuedDoc(call.code, Len(issues) + 1, 0)
                            EXCEPT !.expiresAt = call.expiresAt]
          /\ issues' = Append(issues, NoTally)
          /\ sending' = (sending (-) SetToBag({call}))
                          (+) SetToBag({[call EXCEPT !.pc = "sendEmail",
                                                     !.serial = Len(issues) + 1]})
          /\ sent' = sent
     ELSE /\ sending' = sending (-) SetToBag({call})
          /\ sent' = sent (+) SetToBag({SendEnded(call,
                        SendErrorMessage(CHOOSE e \in FirestoreErrors : TRUE))})
          /\ UNCHANGED <<resetDoc, issues>>
  /\ UNCHANGED <<nonResetVars, clock, calls, ended>>

\* sendPasswordResetEmail answers: the call returns {success: true, ...}, or
\* throws what the catch block makes of the rejection
EmailAnswers(call, answer) ==
  /\ BagIn(call, sending)
  /\ call.pc = "sendEmail"
  /\ sending' = sending (-) SetToBag({call})
  /\ sent' = sent (+) SetToBag({SendEnded(call,
                IF answer = "ok" THEN "resolved" ELSE SendErrorMessage(answer))})
  /\ UNCHANGED <<nonResetVars, resetDoc, clock, calls, ended, issues>>

NextSend ==
  \/ \E code \in ResetCodes : BeginSend(code)
  \/ \E call \in BagToSet(sending) : \E ok \in BOOLEAN : SetDocAnswers(call, ok)
  \/ \E call \in BagToSet(sending) : \E answer \in {"ok"} \cup AuthErrors :
       EmailAnswers(call, answer)
  \/ Tick

SpecSend == InitReset /\ [][NextSend]_vars

(***************************************************************************)
(* Properties of sendVerificationCode (SpecSend).                          *)
(***************************************************************************)
\* C28: sendVerificationCode is all-or-nothing: a call that rejects (no
\* account for the email, invalid email, rate limit, ...) has not created
\* or replaced the verification code stored for the email.
C28_RejectedSendStoresNothing ==
  \A s \in BagToSet(sent) : s.outcome # "resolved" => s.serial = 0

\* what the code does keep: a call that rejects has stored its code exactly
\* when the rejection came from sendPasswordResetEmail, after setDoc had
\* succeeded; a call that resolves has stored its code
C28_CodeStoredOnceSetDocSucceeds ==
  /\ \A s \in BagToSet(sent) : s.outcome = "resolved" => s.serial # 0
  /\ \A s \in BagToSet(sent) :
       s.outcome \in {SendErrorMessage(e) : e \in
                        {"auth/user-not-found", "auth/invalid-email",
                         "auth/too-many-requests"}} => s.serial # 0


====
